---- MODULE Spec2Model ----
(***************************************************************************)
(* Model of the client-report automation: the strategy-deck extractor      *)
(* (pdf_extraction.py), the screenshot metric extractor                    *)
(* (image_analysis.py), the insight generator (insight_generation.py) and  *)
(* the run of one client (client_report_automation.py).                    *)
(* Python strings are TLA+ strings; str methods are operators over them.   *)
(***************************************************************************)
EXTENDS Integers, Sequences, FiniteSets, TLC

VARIABLES
    pc,                 \* position of the running call
    pdf,                \* the document behind pdf_path
    pages_read,         \* extract_data: pages consumed by the loop over doc
    text,               \* extract_data: text accumulated from the pages; analyze_image: OCR text
    kpis,               \* extract_data: result of _extract_kpis
    content_pillars,    \* extract_data: result of _extract_content_pillars
    strategy_data,      \* value returned by extract_data / argument of generate_insights
    image,              \* the screenshot behind image_path
    metrics,            \* analyze_image: the dict built by _extract_metrics and returned
    metrics_data,       \* generate_insights: ordered mapping image name -> entry
    highlights_text,    \* generate_insights: the highlights string
    platform_insights,  \* generate_insights: local of the same name
    kpi_insights,       \* generate_insights: local of the same name
    content_insights,   \* generate_insights: local of the same name
    key_takeaway,       \* generate_insights: local of the same name
    insights,           \* value returned by generate_insights
    client,             \* process_client: the client's directories, files and Slack channel
    month,              \* process_client: local of the same name
    missing_items,      \* process_client: local of the same name
    report_url,         \* process_client: value returned by generate_report
    calls,              \* process_client: the extractor, generator and report calls made, in order
    snapshots,          \* process_client: the JSON files written to Processed_Data
    notifications,      \* process_client: the notify_* calls made on self.slack, in order
    result              \* process_client: the value returned, "none" while running

vars == <<pc, pdf, pages_read, text, kpis, content_pillars, strategy_data, image, metrics, metrics_data,
          highlights_text, platform_insights, kpi_insights, content_insights,
          key_takeaway, insights, client, month, missing_items, report_url, calls, snapshots,
          notifications, result>>

----------------------------------------------------------------------------
(* Bounds of the model *)

MaxPages == 2
MaxImages == 2
MaxKpis == 2
MaxOcrLines == 2
MaxPillars == 2

----------------------------------------------------------------------------
(* Python str primitives *)

NL == "\n"

UpperLetters == "ABCDEFGHIJKLMNOPQRSTUVWXYZ"
LowerLetters == "abcdefghijklmnopqrstuvwxyz"
Digits == "0123456789"

CharAt(s, i) == SubSeq(s, i, i)

\* c in s, for a one-character c
CharIn(c, s) == \E i \in 1..Len(s) : CharAt(s, i) = c

IndexIn(c, s) == CHOOSE i \in 1..Len(s) : CharAt(s, i) = c

UpperSet == {CharAt(UpperLetters, i) : i \in 1..Len(UpperLetters)}
LowerSet == {CharAt(LowerLetters, i) : i \in 1..Len(LowerLetters)}
DigitSet == {CharAt(Digits, i) : i \in 1..Len(Digits)}

ToLower == [c \in UpperSet |-> CharAt(LowerLetters, IndexIn(c, UpperLetters))]
ToUpper == [c \in LowerSet |-> CharAt(UpperLetters, IndexIn(c, LowerLetters))]

\* str.lower() on one character
LowerChar(c) == IF c \in UpperSet THEN ToLower[c] ELSE c

\* str.upper() on one character
UpperChar(c) == IF c \in LowerSet THEN ToUpper[c] ELSE c

RECURSIVE Lower(_)
\* str.lower()
Lower(s) == IF s = "" THEN "" ELSE LowerChar(CharAt(s, 1)) \o Lower(SubSeq(s, 2, Len(s)))

\* str.capitalize(): first character upper-cased, the rest lower-cased
Capitalize(s) == IF s = "" THEN "" ELSE UpperChar(CharAt(s, 1)) \o Lower(SubSeq(s, 2, Len(s)))

\* t occurs in s at position i
MatchAt(t, s, i) == i + Len(t) - 1 <= Len(s) /\ SubSeq(s, i, i + Len(t) - 1) = t

\* Python: t in s
Contains(t, s) == \E i \in 1..(Len(s) - Len(t) + 1) : MatchAt(t, s, i)

\* Python: s.find(t) + 1 for a t that occurs in s
Find(t, s) == CHOOSE i \in 1..(Len(s) - Len(t) + 1) :
                  MatchAt(t, s, i) /\ \A j \in 1..(i - 1) : ~MatchAt(t, s, j)

\* Python: s.startswith(t)
StartsWith(s, t) == MatchAt(t, s, 1)

\* str.isspace() on one character
IsSpace(c) == c \in {" ", NL, "\t", "\r"}

\* str.isdigit() on one character
IsDigit(c) == c \in DigitSet

RECURSIVE LStrip(_)
LStrip(s) == IF s # "" /\ IsSpace(CharAt(s, 1)) THEN LStrip(SubSeq(s, 2, Len(s))) ELSE s

RECURSIVE RStrip(_)
RStrip(s) == IF s # "" /\ IsSpace(CharAt(s, Len(s))) THEN RStrip(SubSeq(s, 1, Len(s) - 1)) ELSE s

\* str.strip()
Strip(s) == RStrip(LStrip(s))

RECURSIVE Split(_, _)
\* str.split(sep) for a non-empty sep
Split(s, sep) ==
    IF Contains(sep, s)
    THEN LET i == Find(sep, s)
         IN  <<SubSeq(s, 1, i - 1)>> \o Split(SubSeq(s, i + Len(sep), Len(s)), sep)
    ELSE <<s>>

\* str.split(sep, 1)
SplitOnce(s, sep) ==
    IF Contains(sep, s)
    THEN LET i == Find(sep, s)
         IN  <<SubSeq(s, 1, i - 1), SubSeq(s, i + Len(sep), Len(s))>>
    ELSE <<s>>

RECURSIVE TakeWord(_)
\* the leading run of non-whitespace characters of s
TakeWord(s) == IF s = "" \/ IsSpace(CharAt(s, 1)) THEN ""
               ELSE CharAt(s, 1) \o TakeWord(SubSeq(s, 2, Len(s)))

RECURSIVE SplitWords(_)
\* str.split() with no separator: the whitespace-delimited words
SplitWords(s) ==
    LET t == LStrip(s)
    IN  IF t = "" THEN <<>>
        ELSE LET w == TakeWord(t)
             IN  <<w>> \o SplitWords(SubSeq(t, Len(w) + 1, Len(t)))

RECURSIVE Filter(_, _)
\* ''.join(c for c in s if c in keep)
Filter(s, keep) ==
    IF s = "" THEN ""
    ELSE (IF CharIn(CharAt(s, 1), keep) THEN CharAt(s, 1) ELSE "") \o Filter(SubSeq(s, 2, Len(s)), keep)

Range(f) == {f[i] : i \in DOMAIN f}

RECURSIVE Concat(_)
\* the concatenation of a sequence of sequences
Concat(ss) == IF ss = <<>> THEN <<>> ELSE Head(ss) \o Concat(Tail(ss))

RECURSIVE JoinStr(_)
\* the concatenation of a sequence of strings
JoinStr(ss) == IF ss = <<>> THEN "" ELSE Head(ss) \o JoinStr(Tail(ss))

\* the sequences over S of length 0..n
SeqUpTo(S, n) == UNION {[1..k -> S] : k \in 0..n}

----------------------------------------------------------------------------
(* pdf_extraction.py *)

kpi_sections == <<"KPIs", "Key Performance Indicators", "Performance Metrics">>

pillar_sections == <<"Content Pillars", "Content Strategy", "Content Themes">>

\* text.split(section)[1].split("\n\n")[0]
SectionText(txt, section) == Split(Split(txt, section)[2], NL \o NL)[1]

RECURSIVE KpiLinesSplitAll(_)
\* _extract_kpis splitting the line on every colon and keeping parts[1]
KpiLinesSplitAll(lines) ==
    IF lines = <<>> THEN <<>>
    ELSE LET line == Strip(Head(lines))
         IN  (IF line # "" /\ Contains(":", line)
              THEN LET parts == Split(line, ":")
                   IN  <<[name |-> Strip(parts[1]), value |-> Strip(parts[2])]>>
              ELSE <<>>) \o KpiLinesSplitAll(Tail(lines))

RECURSIVE KpiLines(_)
\* the loop over section_text.split("\n") of _extract_kpis
KpiLines(lines) ==
    IF lines = <<>> THEN <<>>
    ELSE LET line == Strip(Head(lines))
         IN  (IF line # "" /\ Contains(":", line)
              THEN LET parts == SplitOnce(line, ":")
                   IN  <<[name |-> Strip(parts[1]), value |-> Strip(parts[2])]>>
              ELSE <<>>) \o KpiLines(Tail(lines))

RECURSIVE ExtractKpisFrom(_, _)
\* the loop over kpi_sections of _extract_kpis
ExtractKpisFrom(txt, sections) ==
    IF sections = <<>> THEN <<>>
    ELSE (IF Contains(Head(sections), txt)
          THEN KpiLines(Split(SectionText(txt, Head(sections)), NL))
          ELSE <<>>) \o ExtractKpisFrom(txt, Tail(sections))

RECURSIVE LowerAll(_)
LowerAll(ss) == IF ss = <<>> THEN <<>> ELSE <<Lower(Head(ss))>> \o LowerAll(Tail(ss))

\* _extract_kpis looking for the headings without regard to case
ExtractKpisAnyCase(txt) == ExtractKpisFrom(Lower(txt), LowerAll(kpi_sections))

\* PDFExtractor._extract_kpis
ExtractKpis(txt) == ExtractKpisFrom(txt, kpi_sections)

RECURSIVE PillarLinesKeepBullets(_)
\* _extract_content_pillars dropping only the lines that start with '#'
PillarLinesKeepBullets(lines) ==
    IF lines = <<>> THEN <<>>
    ELSE LET line == Strip(Head(lines))
         IN  (IF line # "" /\ ~StartsWith(line, "#")
              THEN <<line>>
              ELSE <<>>) \o PillarLinesKeepBullets(Tail(lines))

RECURSIVE PillarLines(_)
\* the loop over section_text.split("\n") of _extract_content_pillars
PillarLines(lines) ==
    IF lines = <<>> THEN <<>>
    ELSE LET line == Strip(Head(lines))
         IN  (IF line # "" /\ ~StartsWith(line, "#") /\ ~StartsWith(line, "*")
              THEN <<line>>
              ELSE <<>>) \o PillarLines(Tail(lines))

RECURSIVE ExtractPillarsFrom(_, _)
\* the loop over pillar_sections of _extract_content_pillars
ExtractPillarsFrom(txt, sections) ==
    IF sections = <<>> THEN <<>>
    ELSE (IF Contains(Head(sections), txt)
          THEN PillarLines(Split(SectionText(txt, Head(sections)), NL))
          ELSE <<>>) \o ExtractPillarsFrom(txt, Tail(sections))

\* PDFExtractor._extract_content_pillars
ExtractContentPillars(txt) == ExtractPillarsFrom(txt, pillar_sections)

\* text.split(section)[1] raises IndexError when the split gives fewer than two parts
IndexRaises(txt, sections) ==
    \E j \in 1..Len(sections) :
        Contains(sections[j], txt) /\ Len(Split(txt, sections[j])) < 2

\* kpi_name, kpi_value = line.split(":", 1) raises ValueError unless the split gives two parts
UnpackRaises(txt) ==
    \E j \in 1..Len(kpi_sections) :
        /\ Contains(kpi_sections[j], txt)
        /\ Len(Split(txt, kpi_sections[j])) >= 2
        /\ LET lines == Split(SectionText(txt, kpi_sections[j]), NL)
           IN  \E n \in 1..Len(lines) :
                   /\ Strip(lines[n]) # "" /\ Contains(":", Strip(lines[n]))
                   /\ Len(SplitOnce(Strip(lines[n]), ":")) # 2

\* a Python list, tagged with its type
PyList(items) == [py_type |-> "list", items |-> items]

\* dict.get(key, default) on a dict modelled as a record
Get(d, key, default) == IF key \in DOMAIN d THEN d[key] ELSE default

\* the dict built by the return statements of extract_data
StrategyDict(k, p) == [py_type |-> "dict", kpis |-> PyList(k), content_pillars |-> PyList(p)]

\* the page texts the model draws documents from
PageTexts ==
    { "KPIs\nReach: 5000\nClicks: 200\n\nOther text",
      "Content Pillars\nEducation\n* bullet\n# Heading\n  Community  \n\nNotes\n",
      "Performance Metrics\nCTR: 2%\nno colon here\nTime: 10:30\n\n",
      "Intro text only\n",
      "Content Themes\nHumor\n\nContent Strategy\nVideo first\n\n",
      "Our KPIs:\nViews: 900\nKPIs again\nLeads: 30\n\n",
      "all kpis: met\ncontent strategy: video\n\n" }

\* a page whose get_text() returns t
TextPage(t) == [readable |-> TRUE, text |-> t]

\* a page whose get_text() raises
CorruptPage == [readable |-> FALSE, text |-> ""]

Pages == {TextPage(t) : t \in PageTexts} \cup {CorruptPage}

\* the documents: one that fitz.open rejects, and the openable ones
Documents == {[openable |-> FALSE, pages |-> <<>>]}
             \cup {[openable |-> TRUE, pages |-> ps] : ps \in SeqUpTo(Pages, MaxPages)}

\* the screenshot of a call that analyzes none
NoImage == [path |-> "", readable |-> FALSE, ocr_ok |-> FALSE, ocr_text |-> ""]

\* the dict {}
EmptyDict == [py_type |-> "dict"]

NoInsights == [platform_insights |-> <<>>, kpi_insights |-> <<>>,
               content_insights |-> <<>>, key_takeaway |-> ""]

client_vars == <<client, month, missing_items, report_url, calls, snapshots, notifications, result>>

\* the client of a call that processes none
NoClient ==
    [slack_channel |-> FALSE, client_dir |-> FALSE, month_arg |-> "", monthly_data |-> FALSE,
     months |-> {}, strategy_decks |-> <<>>, screenshots |-> <<>>, highlights_files |-> <<>>,
     highlights_readable |-> FALSE, report_writable |-> FALSE]

\* the variables of process_client, while another call runs
ClientIdle ==
    /\ client = NoClient /\ month = "" /\ missing_items = <<>> /\ report_url = ""
    /\ calls = <<>> /\ snapshots = {} /\ notifications = <<>> /\ result = "none"

\* the variables of the other calls, while extract_data runs
PdfIdle ==
    /\ image = NoImage /\ metrics = EmptyDict
    /\ metrics_data = <<>> /\ highlights_text = ""
    /\ platform_insights = <<>> /\ kpi_insights = <<>> /\ content_insights = <<>>
    /\ key_takeaway = "" /\ insights = NoInsights
    /\ ClientIdle

InitPdf ==
    /\ pc = "pdf_open"
    /\ pdf \in Documents
    /\ pages_read = 0
    /\ text = ""
    /\ kpis = <<>>
    /\ content_pillars = <<>>
    /\ strategy_data = StrategyDict(<<>>, <<>>)
    /\ PdfIdle

synth_vars == <<image, metrics, metrics_data, highlights_text, platform_insights, kpi_insights,
                content_insights, key_takeaway, insights, client_vars>>

\* doc = fitz.open(pdf_path); text = ""
PdfOpen ==
    /\ pc = "pdf_open"
    /\ pc' = IF pdf.openable THEN "pdf_read" ELSE "pdf_except"
    /\ text' = ""
    /\ UNCHANGED <<pdf, pages_read, kpis, content_pillars, strategy_data, synth_vars>>

\* one iteration of: for page in doc: text += page.get_text()
PdfReadPage ==
    /\ pc = "pdf_read"
    /\ pages_read < Len(pdf.pages)
    /\ LET page == pdf.pages[pages_read + 1]
       IN  IF page.readable
           THEN /\ text' = text \o page.text
                /\ pages_read' = pages_read + 1
                /\ pc' = "pdf_read"
           ELSE /\ pc' = "pdf_except"
                /\ UNCHANGED <<text, pages_read>>
    /\ UNCHANGED <<pdf, kpis, content_pillars, strategy_data, synth_vars>>

\* the loop over doc is exhausted
PdfReadDone ==
    /\ pc = "pdf_read"
    /\ pages_read = Len(pdf.pages)
    /\ pc' = "pdf_kpis"
    /\ UNCHANGED <<pdf, pages_read, text, kpis, content_pillars, strategy_data, synth_vars>>

\* kpis = self._extract_kpis(text)
PdfExtractKpis ==
    /\ pc = "pdf_kpis"
    /\ IF IndexRaises(text, kpi_sections) \/ UnpackRaises(text)
       THEN pc' = "pdf_except" /\ UNCHANGED kpis
       ELSE pc' = "pdf_pillars" /\ kpis' = ExtractKpis(text)
    /\ UNCHANGED <<pdf, pages_read, text, content_pillars, strategy_data, synth_vars>>

\* content_pillars = self._extract_content_pillars(text)
PdfExtractPillars ==
    /\ pc = "pdf_pillars"
    /\ IF IndexRaises(text, pillar_sections)
       THEN pc' = "pdf_except" /\ UNCHANGED content_pillars
       ELSE pc' = "pdf_return" /\ content_pillars' = ExtractContentPillars(text)
    /\ UNCHANGED <<pdf, pages_read, text, kpis, strategy_data, synth_vars>>

\* an exception of the runtime inside the try block while the text is scanned
\* (the handler catches every Exception, a MemoryError included)
PdfScanRaises ==
    /\ pc \in {"pdf_kpis", "pdf_pillars"}
    /\ pc' = "pdf_except"
    /\ UNCHANGED <<pdf, pages_read, text, kpis, content_pillars, strategy_data, synth_vars>>

\* return {"kpis": kpis, "content_pillars": content_pillars}
PdfReturn ==
    /\ pc = "pdf_return"
    /\ strategy_data' = StrategyDict(kpis, content_pillars)
    /\ pc' = "pdf_done"
    /\ UNCHANGED <<pdf, pages_read, text, kpis, content_pillars, synth_vars>>

\* an except clause that returns what the try block had extracted so far
PdfExceptPartial ==
    /\ pc = "pdf_except"
    /\ strategy_data' = StrategyDict(kpis, content_pillars)
    /\ pc' = "pdf_failed"
    /\ UNCHANGED <<pdf, pages_read, text, kpis, content_pillars, synth_vars>>

\* except Exception: return {"kpis": [], "content_pillars": []}
PdfExcept ==
    /\ pc = "pdf_except"
    /\ strategy_data' = StrategyDict(<<>>, <<>>)
    /\ pc' = "pdf_failed"
    /\ UNCHANGED <<pdf, pages_read, text, kpis, content_pillars, synth_vars>>

NextPdf ==
    \/ PdfOpen
    \/ PdfReadPage
    \/ PdfReadDone
    \/ PdfExtractKpis
    \/ PdfExtractPillars
    \/ PdfScanRaises
    \/ PdfReturn
    \/ PdfExcept

SpecPdf == InitPdf /\ [][NextPdf]_vars

----------------------------------------------------------------------------
(* Claims about extract_data, _extract_kpis and _extract_content_pillars *)

\* _extract_kpis has returned
KpisExtracted == pc \in {"pdf_pillars", "pdf_return", "pdf_done"}

\* _extract_content_pillars has returned
PillarsExtracted == pc \in {"pdf_return", "pdf_done"}

\* the lines of a block that are non-empty and hold a colon, in line order
ColonLines(block) == SelectSeq(Split(block, NL), LAMBDA l : Strip(l) # "" /\ Contains(":", l))

\* the KPI a line stands for: the text around its first colon, trimmed
KpiOfLine(l) ==
    LET s == Strip(l)
        i == Find(":", s)
    IN  [name |-> Strip(SubSeq(s, 1, i - 1)), value |-> Strip(SubSeq(s, i + 1, Len(s)))]

KpisOfBlock(block) == [i \in 1..Len(ColonLines(block)) |-> KpiOfLine(ColonLines(block)[i])]

KpisOfHeading(j) ==
    IF Contains(kpi_sections[j], text) THEN KpisOfBlock(SectionText(text, kpi_sections[j])) ELSE <<>>

ReachClicksText == "KPIs\nReach: 5000\nClicks: 200\n\nOther text"

\* C8: in the block captured after a KPI heading every non-empty line with a
\* colon yields one KPI, in line order, named by the trimmed text before the
\* first colon and valued by the trimmed text after it; lines without a colon
\* yield nothing; the Reach/Clicks text yields exactly those two KPIs.
C8_KpiLineParsing ==
    KpisExtracted =>
        /\ kpis = KpisOfHeading(1) \o KpisOfHeading(2) \o KpisOfHeading(3)
        /\ text = ReachClicksText =>
               kpis = <<[name |-> "Reach", value |-> "5000"], [name |-> "Clicks", value |-> "200"]>>

\* a value that keeps a later colon, next to a line without a colon
C8_Witness ==
    /\ pc = "pdf_done"
    /\ Contains("no colon here", text)
    /\ [name |-> "Time", value |-> "10:30"] \in Range(kpis)
    /\ Len(kpis) >= 2

NoHeading(sections) == \A j \in 1..Len(sections) : ~Contains(sections[j], text)

\* C9: a text with none of the KPI headings gives an empty KPI sequence and a
\* text with none of the pillar headings gives an empty pillar sequence; the
\* extraction completes in both cases.
C9_MissingSections ==
    /\ (KpisExtracted /\ NoHeading(kpi_sections)) => kpis = <<>>
    /\ (PillarsExtracted /\ NoHeading(pillar_sections)) => content_pillars = <<>>
    /\ (pc = "pdf_done" /\ NoHeading(kpi_sections) /\ NoHeading(pillar_sections)) =>
           (strategy_data.kpis.items = <<>> /\ strategy_data.content_pillars.items = <<>>)

\* a text with colon lines and lower-case heading words, but no heading
C9_Witness ==
    /\ pc = "pdf_done"
    /\ Contains("all kpis: met", text)
    /\ NoHeading(kpi_sections) /\ NoHeading(pillar_sections)
    /\ strategy_data.kpis.items = <<>>

\* C10: an error while opening the document, reading a page or scanning the
\* text is caught; extract_data returns exactly {kpis: [], content_pillars: []}
\* whatever had been extracted before the error.
C10_ExtractorFailure ==
    pc = "pdf_failed" =>
        strategy_data = [py_type |-> "dict",
                         kpis |-> [py_type |-> "list", items |-> <<>>],
                         content_pillars |-> [py_type |-> "list", items |-> <<>>]]

\* the error came after _extract_kpis had returned KPIs
C10_Witness == pc = "pdf_failed" /\ kpis # <<>>

----------------------------------------------------------------------------
(* image_analysis.py *)

\* a platforms table whose linkedin entry has no two-letter keyword
platformsWithoutLi ==
    << [platform |-> "facebook",  patterns |-> <<"facebook", "fb", "meta">>],
       [platform |-> "instagram", patterns |-> <<"instagram", "ig", "insta">>],
       [platform |-> "twitter",   patterns |-> <<"twitter", "tweet", "x">>],
       [platform |-> "linkedin",  patterns |-> <<"linkedin", "linked in">>],
       [platform |-> "tiktok",    patterns |-> <<"tiktok", "tt", "tik tok">>],
       [platform |-> "youtube",   patterns |-> <<"youtube", "yt", "you tube">>],
       [platform |-> "pinterest", patterns |-> <<"pinterest", "pin">>] >>

\* the platforms table of _detect_platform, in declaration order
platforms ==
    << [platform |-> "facebook",  patterns |-> <<"facebook", "fb", "meta">>],
       [platform |-> "instagram", patterns |-> <<"instagram", "ig", "insta">>],
       [platform |-> "twitter",   patterns |-> <<"twitter", "tweet", "x">>],
       [platform |-> "linkedin",  patterns |-> <<"linkedin", "li", "linked in">>],
       [platform |-> "tiktok",    patterns |-> <<"tiktok", "tt", "tik tok">>],
       [platform |-> "youtube",   patterns |-> <<"youtube", "yt", "you tube">>],
       [platform |-> "pinterest", patterns |-> <<"pinterest", "pin">>] >>

\* the metric_patterns table of _extract_metrics, in declaration order
metric_patterns ==
    << [name |-> "impressions", patterns |-> <<"impressions", "views", "reach">>],
       [name |-> "engagement",  patterns |-> <<"engagement", "interactions", "likes", "comments", "shares">>],
       [name |-> "clicks",      patterns |-> <<"clicks", "link clicks", "website clicks">>],
       [name |-> "followers",   patterns |-> <<"followers", "new followers", "audience growth">>],
       [name |-> "conversion",  patterns |-> <<"conversion", "leads", "sign-ups", "purchases">>] >>

\* any(pattern.lower() in text.lower() for pattern in patterns); low is text.lower()
AnyPatternIn(patterns, low) ==
    \E k \in 1..Len(patterns) : Contains(Lower(patterns[k]), low)

RECURSIVE DetectFromLast(_, _)
\* a detection in which the last matching platform of the table wins
DetectFromLast(low, table) ==
    IF table = <<>> THEN "unknown"
    ELSE IF AnyPatternIn(table[Len(table)].patterns, low) THEN table[Len(table)].platform
         ELSE DetectFromLast(low, SubSeq(table, 1, Len(table) - 1))

RECURSIVE DetectFrom(_, _)
\* the loop over platforms.items() of _detect_platform; low is text.lower()
DetectFrom(low, table) ==
    IF table = <<>> THEN "unknown"
    ELSE IF AnyPatternIn(Head(table).patterns, low) THEN Head(table).platform
         ELSE DetectFrom(low, Tail(table))

\* ImageAnalyzer._detect_platform
DetectPlatform(txt) == DetectFrom(Lower(txt), platforms)

RECURSIVE WordLoopUnfiltered(_, _, _, _)
\* the loop over enumerate(words) storing the next word as it stands
WordLoopUnfiltered(words, pattern, i, cur) ==
    IF i > Len(words) THEN cur
    ELSE IF Contains(pattern, Lower(words[i])) /\ i < Len(words)
         THEN <<Strip(words[i + 1])>>
         ELSE WordLoopUnfiltered(words, pattern, i + 1, cur)

RECURSIVE WordLoop(_, _, _, _)
\* the loop over enumerate(words): cur is the value stored so far (<<>> when
\* none), as a sequence of at most one string
WordLoop(words, pattern, i, cur) ==
    IF i > Len(words) THEN cur
    ELSE IF Contains(pattern, Lower(words[i])) /\ i < Len(words)
         THEN <<Filter(Strip(words[i + 1]), Digits \o ".%")>>
         ELSE WordLoop(words, pattern, i + 1, cur)

RECURSIVE LineLoop(_, _, _, _)
\* the loop over text.split("\n") for one pattern; lows[n] is lines[n].lower()
LineLoop(lines, lows, pattern, cur) ==
    IF lines = <<>> THEN cur
    ELSE LET line == Head(lines)
             parts == Split(line, ":")
         IN  IF Contains(pattern, Head(lows))
             THEN IF Len(parts) > 1
                  THEN <<Strip(parts[2])>>
                  ELSE LineLoop(Tail(lines), Tail(lows), pattern,
                                WordLoop(SplitWords(line), pattern, 1, cur))
             ELSE LineLoop(Tail(lines), Tail(lows), pattern, cur)

RECURSIVE PatternLoop(_, _, _, _)
\* the loop over the patterns of one metric name; low is text.lower()
PatternLoop(patterns, txt, low, cur) ==
    IF patterns = <<>> THEN cur
    ELSE LET pattern == Lower(Head(patterns))
         IN  PatternLoop(Tail(patterns), txt, low,
                         IF Contains(pattern, low)
                         THEN LineLoop(Split(txt, NL), Split(low, NL), pattern, cur)
                         ELSE cur)

RECURSIVE MetricLoopAllKeys(_, _, _)
\* a loop that stores every metric name, with an empty value when nothing was found
MetricLoopAllKeys(table, txt, low) ==
    IF table = <<>> THEN <<>>
    ELSE LET found == PatternLoop(Head(table).patterns, txt, low, <<>>)
         IN  <<[name |-> Head(table).name, value |-> IF found = <<>> THEN "" ELSE found[1]]>>
             \o MetricLoopAllKeys(Tail(table), txt, low)

RECURSIVE MetricLoop(_, _, _)
\* the loop over metric_patterns.items(): the metrics dict as the sequence of
\* its items, in insertion order
MetricLoop(table, txt, low) ==
    IF table = <<>> THEN <<>>
    ELSE LET found == PatternLoop(Head(table).patterns, txt, low, <<>>)
         IN  (IF found = <<>> THEN <<>>
              ELSE <<[name |-> Head(table).name, value |-> found[1]]>>)
             \o MetricLoop(Tail(table), txt, low)

\* ImageAnalyzer._extract_metrics
ExtractMetrics(txt) ==
    [py_type |-> "dict", platform |-> DetectPlatform(txt),
     metrics |-> MetricLoop(metric_patterns, txt, Lower(txt))]

\* os.path.basename
Basename(path) == LET parts == Split(path, "/") IN parts[Len(parts)]

\* metrics["image_path"] = image_path; metrics["image_name"] = basename
WithImageMetadata(m, path) ==
    [py_type |-> "dict", platform |-> m.platform, metrics |-> m.metrics,
     image_path |-> path, image_name |-> Basename(path)]

\* an except clause that also reports an unknown platform and no metrics
ErrorEntryWithDefaults(path) ==
    [py_type |-> "dict", platform |-> "unknown", metrics |-> <<>>,
     image_path |-> path, image_name |-> Basename(path),
     error |-> "error analyzing image"]

\* the dict returned by the except clause of analyze_image
ErrorEntry(path) ==
    [py_type |-> "dict", image_path |-> path, image_name |-> Basename(path),
     error |-> "error analyzing image"]

\* the lines the model draws OCR texts from
OcrLines ==
    { "Instagram Insights", "Posted on Twitter and Facebook",
      "Engagement: 500", "Reach: 10:30", "Impressions 12,000 total",
      "Views 900", "Likes 20 Comments 3", "Followers", "Clicks: 40",
      "Conversion rate n/a", "Pinned on Pinterest and YouTube",
      "Total reach 85% outreach" }

RECURSIVE JoinLines(_)
\* the text whose lines are ls, each ended by a newline
JoinLines(ls) == IF ls = <<>> THEN "" ELSE Head(ls) \o NL \o JoinLines(Tail(ls))

OcrTexts == {JoinLines(ls) : ls \in SeqUpTo(OcrLines, MaxOcrLines)}

\* the screenshots: one cv2 cannot read, one the OCR fails on, and the readable ones
Images ==
    { [path |-> "shots/broken.png", readable |-> FALSE, ocr_ok |-> FALSE, ocr_text |-> ""],
      [path |-> "shots/noocr.png", readable |-> TRUE, ocr_ok |-> FALSE, ocr_text |-> ""] }
    \cup {[path |-> "shots/a.png", readable |-> TRUE, ocr_ok |-> TRUE, ocr_text |-> t] : t \in OcrTexts}

\* the variables of the other calls, while analyze_image runs
ImgIdle ==
    /\ pdf = [openable |-> FALSE, pages |-> <<>>] /\ pages_read = 0
    /\ kpis = <<>> /\ content_pillars = <<>> /\ strategy_data = StrategyDict(<<>>, <<>>)
    /\ metrics_data = <<>> /\ highlights_text = ""
    /\ platform_insights = <<>> /\ kpi_insights = <<>> /\ content_insights = <<>>
    /\ key_takeaway = "" /\ insights = NoInsights
    /\ ClientIdle

InitImage ==
    /\ pc = "img_read"
    /\ image \in Images
    /\ text = ""
    /\ metrics = EmptyDict
    /\ ImgIdle

img_others == <<pdf, pages_read, kpis, content_pillars, strategy_data, image, metrics_data,
                highlights_text, platform_insights, kpi_insights, content_insights,
                key_takeaway, insights, client_vars>>

\* image = cv2.imread(...); gray = cv2.cvtColor(...); thresh = cv2.threshold(...)
ImgRead ==
    /\ pc = "img_read"
    /\ pc' = IF image.readable THEN "img_ocr" ELSE "img_except"
    /\ UNCHANGED <<text, metrics, img_others>>

\* text = pytesseract.image_to_string(thresh)
ImgOcr ==
    /\ pc = "img_ocr"
    /\ IF image.ocr_ok
       THEN text' = image.ocr_text /\ pc' = "img_extract"
       ELSE text' = text /\ pc' = "img_except"
    /\ UNCHANGED <<metrics, img_others>>

\* metrics = self._extract_metrics(text)
ImgExtract ==
    /\ pc = "img_extract"
    /\ metrics' = ExtractMetrics(text)
    /\ pc' = "img_return"
    /\ UNCHANGED <<text, img_others>>

\* metrics["image_path"] = ...; metrics["image_name"] = ...; return metrics
ImgReturn ==
    /\ pc = "img_return"
    /\ metrics' = WithImageMetadata(metrics, image.path)
    /\ pc' = "img_done"
    /\ UNCHANGED <<text, img_others>>

\* except Exception: return {"image_path", "image_name", "error"}
ImgExcept ==
    /\ pc = "img_except"
    /\ metrics' = ErrorEntry(image.path)
    /\ pc' = "img_failed"
    /\ UNCHANGED <<text, img_others>>

NextImage ==
    \/ ImgRead
    \/ ImgOcr
    \/ ImgExtract
    \/ ImgReturn
    \/ ImgExcept

SpecImage == InitImage /\ [][NextImage]_vars

----------------------------------------------------------------------------
(* insight_generation.py *)

RECURSIVE DedupFrom(_, _)
DedupFrom(xs, seen) ==
    IF xs = <<>> THEN <<>>
    ELSE IF Head(xs) \in seen THEN DedupFrom(Tail(xs), seen)
         ELSE <<Head(xs)>> \o DedupFrom(Tail(xs), seen \cup {Head(xs)})

\* the keys of a dict filled by "if key not in d: d[key] = []", in insertion order
KeyOrder(xs) == DedupFrom(xs, {})

\* isinstance(x, dict)
IsDict(x) == x.py_type = "dict"

\* isinstance(x, list)
IsList(x) == x.py_type = "list"

\* data.get("platform", "unknown")
PlatformOf(data) == Get(data, "platform", "unknown")

\* data.get("metrics", {}).items()
MetricsOf(data) == Get(data, "metrics", <<>>)

\* the (metric_name, value) items of all entries of a list of entries, in order
AllItems(entries) == Concat([i \in 1..Len(entries) |-> MetricsOf(entries[i])])

\* the keys of combined_metrics / all_metrics, in insertion order
MetricNames(entries) ==
    LET items == AllItems(entries)
    IN  KeyOrder([i \in 1..Len(items) |-> items[i].name])

\* combined_metrics[metric_name] / all_metrics[metric_name]: the values in append order
ValuesOf(entries, metric_name) ==
    LET items == SelectSeq(AllItems(entries), LAMBDA it : it.name = metric_name)
    IN  [i \in 1..Len(items) |-> items[i].value]

\* the value templated into a sentence: values[-1]
LastValue(values) == values[Len(values)]

\* the value templated into a sentence: values[0]
TemplateValue(values) == values[1]

\* the if/elif chain over metric_name of _generate_platform_insights
PlatformSentence(platform, metric_name, v) ==
    CASE metric_name = "impressions" ->
             <<Capitalize(platform) \o " content reached a significant audience with " \o v \o " impressions.">>
      [] metric_name = "engagement" ->
             <<Capitalize(platform) \o " engagement was strong with " \o v \o " interactions.">>
      [] metric_name = "clicks" ->
             <<Capitalize(platform) \o " drove " \o v \o " clicks to the website.">>
      [] metric_name = "followers" ->
             <<Capitalize(platform) \o " audience grew by " \o v \o " new followers.">>
      [] metric_name = "conversion" ->
             <<Capitalize(platform) \o " generated " \o v \o " conversions.">>
      [] OTHER -> <<>>

\* the keys of platforms with no platform skipped
PlatformKeysAll(md) == KeyOrder([i \in 1..Len(md) |-> PlatformOf(md[i])])

\* the keys of platforms the second loop does not skip, in insertion order
PlatformKeys(md) ==
    SelectSeq(KeyOrder([i \in 1..Len(md) |-> PlatformOf(md[i])]), LAMBDA p : p # "unknown")

\* platforms[platform]: the entries of one platform, in mapping order
PlatformGroup(md, platform) == SelectSeq(md, LAMBDA data : PlatformOf(data) = platform)

\* the insights appended for one platform
GroupInsights(platform, data_list) ==
    LET names == MetricNames(data_list)
    IN  Concat([n \in 1..Len(names) |->
                   PlatformSentence(platform, names[n], TemplateValue(ValuesOf(data_list, names[n])))])

\* a grouping by data["platform"], which raises KeyError on an entry without the key
PlatformRaisesOnMissingKey(md) ==
    \E i \in 1..Len(md) : ~IsDict(md[i]) \/ "platform" \notin DOMAIN md[i]

\* data.get raises AttributeError on an entry that is no dict
PlatformRaises(md) == \E i \in 1..Len(md) : ~IsDict(md[i])

\* InsightGenerator._generate_platform_insights
GeneratePlatformInsights(md) ==
    LET keys == PlatformKeys(md)
    IN  Concat([k \in 1..Len(keys) |-> GroupInsights(keys[k], PlatformGroup(md, keys[k]))])

\* ''.join(c for c in value if c.isdigit() or c == '.')
NumericChars(value) == Filter(value, Digits \o ".")

\* the number of characters of s equal to c
CountChar(s, c) == Cardinality({i \in 1..Len(s) : CharAt(s, i) = c})

\* float(t) succeeds on a string of digits and dots: at most one dot, at least one digit
FloatParses(t) == CountChar(t, ".") <= 1 /\ Len(t) > CountChar(t, ".")

RECURSIVE IntOf(_)
\* the number written by a string of digits
IntOf(ds) == IF ds = "" THEN 0
             ELSE 10 * IntOf(SubSeq(ds, 1, Len(ds) - 1)) + (IndexIn(CharAt(ds, Len(ds)), Digits) - 1)

RECURSIVE Pow10(_)
Pow10(n) == IF n = 0 THEN 1 ELSE 10 * Pow10(n - 1)

\* float(t) as mant / 10^exp
FloatOf(t) ==
    [mant |-> IntOf(Filter(t, Digits)),
     exp  |-> IF Contains(".", t) THEN Len(t) - Find(".", t) ELSE 0]

\* metric_num > kpi_num
FloatGT(a, b) == a.mant * Pow10(b.exp) > b.mant * Pow10(a.exp)

\* metric_num >= kpi_num
FloatGE(a, b) == a.mant * Pow10(b.exp) >= b.mant * Pow10(a.exp)

\* a comparison that counts a value that does not parse as zero
KpiSentenceZeroDefault(kpi_name, kpi_value, metric_value) ==
    LET k == NumericChars(kpi_value)
        m == NumericChars(metric_value)
        zero == [mant |-> 0, exp |-> 0]
        tail == " KPI for " \o kpi_name \o ": Target was " \o kpi_value
                \o ", achieved " \o metric_value \o "."
    IN  IF FloatGE(IF FloatParses(m) THEN FloatOf(m) ELSE zero,
                   IF FloatParses(k) THEN FloatOf(k) ELSE zero)
        THEN "Exceeded" \o tail ELSE "Below" \o tail

\* the try/except of _generate_kpi_insights for one KPI and one matched metric
KpiSentence(kpi_name, kpi_value, metric_value) ==
    LET k == NumericChars(kpi_value)
        m == NumericChars(metric_value)
        tail == " KPI for " \o kpi_name \o ": Target was " \o kpi_value
                \o ", achieved " \o metric_value \o "."
    IN  IF FloatParses(k) /\ FloatParses(m)
        THEN IF FloatGE(FloatOf(m), FloatOf(k)) THEN "Exceeded" \o tail ELSE "Below" \o tail
        ELSE "KPI for " \o kpi_name \o ": Target was " \o kpi_value
             \o ", achieved " \o metric_value \o "."

\* metric_name.lower() in kpi_name or kpi_name in metric_name.lower()
\* a match that a KPI without a name never makes
KpiMatchesNonEmpty(kpi_name, metric_name) ==
    kpi_name # "" /\ (Contains(Lower(metric_name), kpi_name) \/ Contains(kpi_name, Lower(metric_name)))

KpiMatches(kpi_name, metric_name) ==
    Contains(Lower(metric_name), kpi_name) \/ Contains(kpi_name, Lower(metric_name))

\* the insights appended for one KPI: the loop over all_metrics.items()
KpiInsightsOf(kpi, md) ==
    LET kpi_name == Lower(Get(kpi, "name", ""))
        kpi_value == Get(kpi, "value", "")
        names == SelectSeq(MetricNames(md), LAMBDA n : KpiMatches(kpi_name, n))
    IN  [n \in 1..Len(names) |->
            KpiSentence(kpi_name, kpi_value, TemplateValue(ValuesOf(md, names[n])))]

\* strategy_data.get("kpis", [])
KpisOf(sd) == Get(sd, "kpis", PyList(<<>>))

\* strategy_data.get("content_pillars", [])
PillarsOf(sd) == Get(sd, "content_pillars", PyList(<<>>))

\* .get on a strategy_data or an entry that is no dict raises AttributeError;
\* iterating kpis that is no list raises TypeError
KpiRaises(sd, md) ==
    \/ ~IsDict(sd)
    \/ \E i \in 1..Len(md) : ~IsDict(md[i])
    \/ ~IsList(KpisOf(sd))

\* a pooling that leaves out the screenshots of unknown platform, as the platform insights do
GenerateKpiInsightsOfKnown(sd, md) ==
    LET ks == KpisOf(sd).items
        known == SelectSeq(md, LAMBDA data : PlatformOf(data) # "unknown")
    IN  Concat([i \in 1..Len(ks) |-> KpiInsightsOf(ks[i], known)])

\* InsightGenerator._generate_kpi_insights
GenerateKpiInsights(sd, md) ==
    LET ks == KpisOf(sd).items
    IN  Concat([i \in 1..Len(ks) |-> KpiInsightsOf(ks[i], md)])

\* the phrases list of _generate_content_insights
phrases == <<"performed well", "high engagement", "popular", "successful",
             "resonated", "positive feedback", "strong performance">>

RECURSIVE LastSentenceWith(_, _)
\* the loop over sentences without its break: the last sentence holding the phrase
LastSentenceWith(sentences, phrase) ==
    IF sentences = <<>> THEN <<>>
    ELSE IF LastSentenceWith(Tail(sentences), phrase) # <<>>
         THEN LastSentenceWith(Tail(sentences), phrase)
         ELSE IF Contains(phrase, Lower(Head(sentences))) THEN <<Strip(Head(sentences)) \o ".">>
              ELSE <<>>

RECURSIVE FirstSentenceWith(_, _)
\* the loop over sentences: the first one whose lower-cased form holds the phrase
FirstSentenceWith(sentences, phrase) ==
    IF sentences = <<>> THEN <<>>
    ELSE IF Contains(phrase, Lower(Head(sentences))) THEN <<Strip(Head(sentences)) \o ".">>
         ELSE FirstSentenceWith(Tail(sentences), phrase)

\* the loop over content_pillars comparing without lower-casing
PillarInsightsCaseSensitive(pillars, hl) ==
    LET hit == SelectSeq(pillars, LAMBDA pillar : Contains(pillar, hl))
    IN  [i \in 1..Len(hit) |->
            "Content aligned with the '" \o hit[i] \o "' pillar performed well this month."]

\* the insights of the loop over content_pillars
PillarInsights(pillars, hl) ==
    LET hit == SelectSeq(pillars, LAMBDA pillar : Contains(Lower(pillar), Lower(hl)))
    IN  [i \in 1..Len(hit) |->
            "Content aligned with the '" \o hit[i] \o "' pillar performed well this month."]

\* the insights of the loop over phrases
PhraseInsights(hl) ==
    Concat([i \in 1..Len(phrases) |->
               IF Contains(phrases[i], Lower(hl))
               THEN FirstSentenceWith(Split(hl, "."), phrases[i])
               ELSE <<>>])

\* bool(x) for a list or a non-zero number
Truthy(x) == IF IsList(x) THEN x.items # <<>> ELSE TRUE

\* .get on a strategy_data that is no dict raises AttributeError; iterating
\* content_pillars that are no list raises TypeError
ContentRaises(sd, hl) ==
    \/ ~IsDict(sd)
    \/ (~IsList(PillarsOf(sd)) /\ Truthy(PillarsOf(sd)) /\ hl # "")

\* InsightGenerator._generate_content_insights
GenerateContentInsights(sd, hl) ==
    (IF Truthy(PillarsOf(sd)) /\ hl # "" THEN PillarInsights(PillarsOf(sd).items, hl) ELSE <<>>)
    \o (IF hl # "" THEN PhraseInsights(hl) ELSE <<>>)

positive_words == <<"exceeded", "strong", "significant", "grew", "performed well">>

negative_words == <<"below", "declined", "decreased", "underperformed">>

StrongTakeaway == "Overall performance was strong this month, with multiple KPIs exceeding targets. Continue to focus on content that resonates with the audience."

BelowTakeaway == "Performance was below targets in several areas this month. Consider adjusting the content strategy to better align with audience interests."

MixedTakeaway == "Performance was mixed this month, with some areas exceeding targets and others falling short. Focus on replicating successful content strategies."

HighlightsTakeaway == "Based on the account manager's highlights, focus on continuing to create content that resonates with the audience and drives engagement."

InsufficientTakeaway == "Insufficient data to generate a meaningful takeaway. Ensure all required data is provided for future reports."

ErrorTakeaway == "Unable to generate insights due to an error."

\* any(w in insight.lower() for w in words); low is insight.lower()
AnyWordIn(words, low) == \E w \in 1..Len(words) : Contains(words[w], low)

\* sum(1 for insight in all_insights if any(w in insight.lower() for w in words))
CountWith(all_insights, words) ==
    Cardinality({i \in 1..Len(all_insights) : AnyWordIn(words, Lower(all_insights[i]))})

\* a key takeaway that calls a tie strong
KeyTakeawayTieStrong(p_ins, k_ins, c_ins, hl) ==
    LET all_insights == p_ins \o k_ins \o c_ins
        positive_count == CountWith(all_insights, positive_words)
        negative_count == CountWith(all_insights, negative_words)
    IN  IF all_insights # <<>>
        THEN IF positive_count >= negative_count THEN StrongTakeaway ELSE BelowTakeaway
        ELSE IF hl # "" THEN HighlightsTakeaway
        ELSE InsufficientTakeaway

\* a key takeaway that ignores the highlights when there is no insight
KeyTakeawayNoHighlights(p_ins, k_ins, c_ins, hl) ==
    LET all_insights == p_ins \o k_ins \o c_ins
        positive_count == CountWith(all_insights, positive_words)
        negative_count == CountWith(all_insights, negative_words)
    IN  IF all_insights # <<>>
        THEN IF positive_count > negative_count THEN StrongTakeaway
             ELSE IF negative_count > positive_count THEN BelowTakeaway
             ELSE MixedTakeaway
        ELSE InsufficientTakeaway

\* a key takeaway that quotes the highlights when there is no insight
KeyTakeawayQuotesHighlights(p_ins, k_ins, c_ins, hl) ==
    LET all_insights == p_ins \o k_ins \o c_ins
        positive_count == CountWith(all_insights, positive_words)
        negative_count == CountWith(all_insights, negative_words)
    IN  IF all_insights # <<>>
        THEN IF positive_count > negative_count THEN StrongTakeaway
             ELSE IF negative_count > positive_count THEN BelowTakeaway
             ELSE MixedTakeaway
        ELSE IF hl # "" THEN "Based on the account manager's highlights: " \o hl
        ELSE InsufficientTakeaway

\* InsightGenerator._generate_key_takeaway
GenerateKeyTakeaway(p_ins, k_ins, c_ins, hl) ==
    LET all_insights == p_ins \o k_ins \o c_ins
        positive_count == CountWith(all_insights, positive_words)
        negative_count == CountWith(all_insights, negative_words)
    IN  IF all_insights # <<>>
        THEN IF positive_count > negative_count THEN StrongTakeaway
             ELSE IF negative_count > positive_count THEN BelowTakeaway
             ELSE MixedTakeaway
        ELSE IF hl # "" THEN HighlightsTakeaway
        ELSE InsufficientTakeaway

\* the entry analyze_image returns for a screenshot whose OCR text is t
ImageEntry(t) == WithImageMetadata(ExtractMetrics(t), "shots/a.png")

\* a metrics_data value that is no dict (JSON null)
NonDict == [py_type |-> "NoneType"]

\* a strategy_data or one of its values that has another type than expected
NonList == [py_type |-> "int"]

Kpi(n, v) == [name |-> n, value |-> v]

\* the dict {"kpis": k, "content_pillars": p}
Strategy(k, p) == [py_type |-> "dict", kpis |-> k, content_pillars |-> p]

\* the variables of the other calls, while generate_insights runs
SynthIdle ==
    /\ pdf = [openable |-> FALSE, pages |-> <<>>] /\ pages_read = 0 /\ text = ""
    /\ kpis = <<>> /\ content_pillars = <<>>
    /\ image = NoImage /\ metrics = EmptyDict
    /\ ClientIdle

\* the locals and the result of generate_insights before the call
SynthStart ==
    /\ pc = "synth_platform"
    /\ platform_insights = <<>> /\ kpi_insights = <<>> /\ content_insights = <<>>
    /\ key_takeaway = "" /\ insights = NoInsights
    /\ SynthIdle

synth_others == <<pdf, pages_read, text, kpis, content_pillars, image, metrics,
                  strategy_data, metrics_data, highlights_text, client_vars>>

\* platform_insights = self._generate_platform_insights(metrics_data)
SynthPlatform ==
    /\ pc = "synth_platform"
    /\ IF PlatformRaises(metrics_data)
       THEN pc' = "synth_except" /\ UNCHANGED platform_insights
       ELSE pc' = "synth_kpi" /\ platform_insights' = GeneratePlatformInsights(metrics_data)
    /\ UNCHANGED <<kpi_insights, content_insights, key_takeaway, insights, synth_others>>

\* kpi_insights = self._generate_kpi_insights(strategy_data, metrics_data)
SynthKpi ==
    /\ pc = "synth_kpi"
    /\ IF KpiRaises(strategy_data, metrics_data)
       THEN pc' = "synth_except" /\ UNCHANGED kpi_insights
       ELSE pc' = "synth_content" /\ kpi_insights' = GenerateKpiInsights(strategy_data, metrics_data)
    /\ UNCHANGED <<platform_insights, content_insights, key_takeaway, insights, synth_others>>

\* content_insights = self._generate_content_insights(strategy_data, metrics_data, highlights_text)
SynthContent ==
    /\ pc = "synth_content"
    /\ IF ContentRaises(strategy_data, highlights_text)
       THEN pc' = "synth_except" /\ UNCHANGED content_insights
       ELSE pc' = "synth_takeaway"
            /\ content_insights' = GenerateContentInsights(strategy_data, highlights_text)
    /\ UNCHANGED <<platform_insights, kpi_insights, key_takeaway, insights, synth_others>>

\* key_takeaway = self._generate_key_takeaway(...)
SynthTakeaway ==
    /\ pc = "synth_takeaway"
    /\ key_takeaway' = GenerateKeyTakeaway(platform_insights, kpi_insights, content_insights,
                                           highlights_text)
    /\ pc' = "synth_return"
    /\ UNCHANGED <<platform_insights, kpi_insights, content_insights, insights, synth_others>>

\* return {"platform_insights": ..., "kpi_insights": ..., "content_insights": ..., "key_takeaway": ...}
SynthReturn ==
    /\ pc = "synth_return"
    /\ insights' = [platform_insights |-> platform_insights, kpi_insights |-> kpi_insights,
                    content_insights |-> content_insights, key_takeaway |-> key_takeaway]
    /\ pc' = "synth_done"
    /\ UNCHANGED <<platform_insights, kpi_insights, content_insights, key_takeaway, synth_others>>

\* an except clause that keeps the insights of the sub-steps that had returned
SynthExceptPartial ==
    /\ pc = "synth_except"
    /\ insights' = [platform_insights |-> platform_insights, kpi_insights |-> kpi_insights,
                    content_insights |-> content_insights, key_takeaway |-> ErrorTakeaway]
    /\ pc' = "synth_failed"
    /\ UNCHANGED <<platform_insights, kpi_insights, content_insights, key_takeaway, synth_others>>

\* except Exception: return the bundle of three empty lists and the error sentence
SynthExcept ==
    /\ pc = "synth_except"
    /\ insights' = [platform_insights |-> <<>>, kpi_insights |-> <<>>,
                    content_insights |-> <<>>, key_takeaway |-> ErrorTakeaway]
    /\ pc' = "synth_failed"
    /\ UNCHANGED <<platform_insights, kpi_insights, content_insights, key_takeaway, synth_others>>

NextSynth ==
    \/ SynthPlatform
    \/ SynthKpi
    \/ SynthContent
    \/ SynthTakeaway
    \/ SynthReturn
    \/ SynthExcept

----------------------------------------------------------------------------
(* generate_insights on metrics_data alone: the platform insights *)

InstagramEngagement500 == ImageEntry("Instagram Insights\nEngagement: 500\n")
InstagramEngagement800 == ImageEntry("Instagram Insights\nEngagement: 800\n")
UnknownReachEngagement == ImageEntry("Reach: 10:30\nEngagement: 900\n")
FacebookImpressionsClicks == ImageEntry("Facebook Page\nImpressions 12,000 total\nClicks: 40\n")

\* an entry whose metrics hold a name outside the five of metric_patterns
TiktokSaves ==
    [py_type |-> "dict", platform |-> "tiktok",
     metrics |-> <<[name |-> "saves", value |-> "7"], [name |-> "conversion", value |-> "3"]>>,
     image_path |-> "shots/t.png", image_name |-> "t.png"]

PlatformEntries ==
    { InstagramEngagement500, InstagramEngagement800, UnknownReachEngagement,
      FacebookImpressionsClicks, TiktokSaves, ErrorEntry("shots/broken.png"), NonDict }

InitPlatform ==
    /\ metrics_data \in SeqUpTo(PlatformEntries, MaxImages)
    /\ strategy_data = EmptyDict
    /\ highlights_text = ""
    /\ SynthStart

SpecPlatform == InitPlatform /\ [][NextSynth]_vars

----------------------------------------------------------------------------
(* generate_insights on KPIs and metrics_data: the KPI insights *)

UnknownViews == ImageEntry("Views 9,000 today\nEngagement: 4.50%\n")
InstagramNoValue == ImageEntry("Instagram Insights\nEngagement: n/a\n")

KpiEntries == {FacebookImpressionsClicks, UnknownViews, InstagramNoValue}

KpiPool ==
    { Kpi("Impressions", "10,000"), Kpi("Impressions", "15000"), Kpi("Impressions", "12000"),
      Kpi("Engagement Rate", "4.5%"), Kpi("", "1.2.3"), Kpi("Clicks and Impressions", "100") }

InitKpi ==
    /\ metrics_data \in SeqUpTo(KpiEntries, MaxImages)
    /\ strategy_data \in {Strategy(PyList(k), PyList(<<>>)) : k \in SeqUpTo(KpiPool, MaxKpis)}
                         \cup {Strategy(NonList, PyList(<<>>)), PyList(<<>>)}
    /\ highlights_text = ""
    /\ SynthStart

SpecKpi == InitKpi /\ [][NextSynth]_vars

----------------------------------------------------------------------------
(* Claims about _generate_platform_insights and _generate_kpi_insights *)

\* _generate_platform_insights has returned
PlatformDone == pc \in {"synth_kpi", "synth_content", "synth_takeaway", "synth_return", "synth_done"}

\* _generate_kpi_insights has returned
KpiDone == pc \in {"synth_content", "synth_takeaway", "synth_return", "synth_done"}

KnownPlatforms == {"facebook", "instagram", "twitter", "linkedin", "tiktok", "youtube", "pinterest"}

KnownMetrics == {"impressions", "engagement", "clicks", "followers", "conversion"}

MinOf(S) == CHOOSE i \in S : \A j \in S : i <= j

\* the entry carries a value for the metric
Carries(data, m) == \E k \in 1..Len(MetricsOf(data)) : MetricsOf(data)[k].name = m

\* the value the entry carries for the metric
CarriedValue(data, m) ==
    MetricsOf(data)[CHOOSE k \in 1..Len(MetricsOf(data)) : MetricsOf(data)[k].name = m].value

\* the screenshots of platform p that carry metric m
Carriers(p, m) ==
    {i \in 1..Len(metrics_data) : PlatformOf(metrics_data[i]) = p /\ Carries(metrics_data[i], m)}

\* every value some screenshot carries
ValuesSeen ==
    UNION {{MetricsOf(metrics_data[i])[k].value : k \in 1..Len(MetricsOf(metrics_data[i]))} :
              i \in 1..Len(metrics_data)}

\* the positions of platform_insights that hold a sentence for (p, m)
SentencesFor(p, m) ==
    {j \in 1..Len(platform_insights) :
        \E v \in ValuesSeen : <<platform_insights[j]>> = PlatformSentence(p, m, v)}

\* C4: for every known platform and metric name, platform_insights holds
\* exactly one sentence for the pair when some screenshot of the platform
\* carries the metric (none otherwise), however many screenshots carry it, and
\* the sentence uses the value of the first such screenshot in mapping order;
\* two instagram screenshots with engagement 500 then 800 give one sentence with 500.
C4_PlatformGrouping ==
    PlatformDone =>
        /\ \A p \in KnownPlatforms, m \in KnownMetrics :
               IF Carriers(p, m) = {}
               THEN SentencesFor(p, m) = {}
               ELSE \E j \in 1..Len(platform_insights) :
                        /\ SentencesFor(p, m) = {j}
                        /\ <<platform_insights[j]>> =
                               PlatformSentence(p, m,
                                   CarriedValue(metrics_data[MinOf(Carriers(p, m))], m))
        /\ Len(platform_insights) =
               Cardinality({pm \in KnownPlatforms \X KnownMetrics : Carriers(pm[1], pm[2]) # {}})
        /\ metrics_data = <<InstagramEngagement500, InstagramEngagement800>> =>
               platform_insights = <<"Instagram engagement was strong with 500 interactions.">>

\* two instagram screenshots with different engagement values, one sentence
C4_Witness ==
    /\ pc = "synth_done"
    /\ Len(metrics_data) = 2
    /\ Carriers("instagram", "engagement") = {1, 2}
    /\ CarriedValue(metrics_data[1], "engagement") = "500"
    /\ CarriedValue(metrics_data[2], "engagement") = "800"
    /\ insights.platform_insights = <<"Instagram engagement was strong with 500 interactions.">>

\* the entries of metrics_data whose platform is not "unknown"
KnownEntries == SelectSeq(metrics_data, LAMBDA data : PlatformOf(data) # "unknown")

\* C5: an entry whose platform is "unknown" contributes no sentence to
\* platform_insights whatever metrics it holds: the insights are those of the
\* other entries alone, none names the platform Unknown, and with only
\* unknown-platform entries platform_insights is empty.
C5_UnknownExcluded ==
    PlatformDone =>
        /\ platform_insights = GeneratePlatformInsights(KnownEntries)
        /\ \A j \in 1..Len(platform_insights) : ~StartsWith(platform_insights[j], "Unknown")
        /\ KnownEntries = <<>> => platform_insights = <<>>

\* a screenshot whose OCR text holds no platform keyword, with metric values
C5_Witness ==
    /\ pc = "synth_done"
    /\ Len(metrics_data) = 2
    /\ metrics_data[1] = ImageEntry("Reach: 10:30\nEngagement: 900\n")
    /\ metrics_data[1].platform = "unknown"
    /\ metrics_data[1].metrics # <<>>
    /\ metrics_data[2] = InstagramEngagement500
    /\ insights.platform_insights = <<"Instagram engagement was strong with 500 interactions.">>

\* the value strings of the model's KPIs and metrics that are numbers once
\* stripped to digits and '.', in hundredths
Hundredths ==
    [v \in {"10,000", "15000", "12000", "9000", "40", "4.5%", "4.50%"} |->
        CASE v = "10,000" -> 1000000
          [] v = "15000"  -> 1500000
          [] v = "12000"  -> 1200000
          [] v = "9000"   -> 900000
          [] v = "40"     -> 4000
          [] v = "4.5%"   -> 450
          [] v = "4.50%"  -> 450]

\* the metric names of the pooled mapping
PooledNames == {n \in KnownMetrics : \E i \in 1..Len(metrics_data) : Carries(metrics_data[i], n)}

\* the first value pooled for the metric
FirstPooled(n) ==
    CarriedValue(metrics_data[MinOf({i \in 1..Len(metrics_data) : Carries(metrics_data[i], n)})], n)

VerdictSentence(verdict, kpi_name, kpi_value, metric_value) ==
    verdict \o " KPI for " \o kpi_name \o ": Target was " \o kpi_value
    \o ", achieved " \o metric_value \o "."

\* C3: for a KPI and a matched pooled metric whose value strings both parse as
\* numbers once stripped to digits and '.', the KPI insight starts with
\* "Exceeded KPI" when the metric number is at least the target (equality
\* included) and with "Below KPI" otherwise; target 10,000 against 12000 gives
\* Exceeded, target 15000 against 12000 gives Below.
C3_KpiComparison ==
    KpiDone =>
        /\ \A i \in 1..Len(strategy_data.kpis.items), n \in PooledNames :
               LET kpi == strategy_data.kpis.items[i]
                   achieved == FirstPooled(n)
                   exceeded == VerdictSentence("Exceeded", Lower(kpi.name), kpi.value, achieved)
                   below == VerdictSentence("Below", Lower(kpi.name), kpi.value, achieved)
               IN  (/\ KpiMatches(Lower(kpi.name), n)
                    /\ kpi.value \in DOMAIN Hundredths
                    /\ achieved \in DOMAIN Hundredths) =>
                       IF Hundredths[achieved] >= Hundredths[kpi.value]
                       THEN exceeded \in Range(kpi_insights) /\ below \notin Range(kpi_insights)
                       ELSE below \in Range(kpi_insights) /\ exceeded \notin Range(kpi_insights)
        /\ (/\ strategy_data.kpis.items = <<Kpi("Impressions", "10,000"), Kpi("Impressions", "15000")>>
            /\ metrics_data = <<FacebookImpressionsClicks>>) =>
               kpi_insights = <<"Exceeded KPI for impressions: Target was 10,000, achieved 12000.",
                                "Below KPI for impressions: Target was 15000, achieved 12000.">>

\* targets 10,000 and 15000 against an achieved 12000
C3_Witness ==
    /\ pc = "synth_done"
    /\ insights.kpi_insights =
           <<"Exceeded KPI for impressions: Target was 10,000, achieved 12000.",
             "Below KPI for impressions: Target was 15000, achieved 12000.">>
    /\ FirstPooled("impressions") = "12000"

----------------------------------------------------------------------------
(* generate_insights on all three arguments *)

LinkedinClicks == ImageEntry("Clicks: 40\n")

SynthEntries == {InstagramEngagement500, LinkedinClicks, NonDict}

SynthKpis == {Kpi("Clicks", "50"), Kpi("Engagement Rate", "4.5%")}

SynthPillars == {PyList(<<>>), PyList(<<"Education">>), NonList}

SynthHighlights ==
    { "", "Quiet month.",
      "Education posts performed well, stories underperformed. Reels resonated but reach declined." }

InitSynth ==
    /\ metrics_data \in SeqUpTo(SynthEntries, MaxImages)
    /\ strategy_data \in {Strategy(PyList(k), p) : k \in SeqUpTo(SynthKpis, MaxKpis), p \in SynthPillars}
                         \cup {Strategy(NonList, PyList(<<>>)), PyList(<<>>), EmptyDict}
    /\ highlights_text \in SynthHighlights
    /\ SynthStart

SpecSynth == InitSynth /\ [][NextSynth]_vars

\* the three contracts, each on its own inputs
SpecAll == (InitPdf \/ InitImage \/ InitSynth) /\ [][NextPdf \/ NextImage \/ NextSynth]_vars

----------------------------------------------------------------------------
(* Claims about generate_insights *)

\* one of the three sub-steps that can raise does so on the arguments of the call
SubStepRaises ==
    \/ PlatformRaises(metrics_data)
    \/ KpiRaises(strategy_data, metrics_data)
    \/ ContentRaises(strategy_data, highlights_text)

\* C1: generate_insights always ends by returning: when no sub-step raises it
\* returns the computed bundle, and when a sub-step raises it returns exactly
\* three empty lists and "Unable to generate insights due to an error.",
\* whatever the earlier sub-steps had computed.
C1_NeverRaises ==
    /\ pc \in {"synth_platform", "synth_kpi", "synth_content", "synth_takeaway",
               "synth_return", "synth_except", "synth_done", "synth_failed"}
    /\ pc = "synth_done" => ~SubStepRaises
    /\ pc \in {"synth_except", "synth_failed"} => SubStepRaises
    /\ pc = "synth_failed" =>
           insights = [platform_insights |-> <<>>, kpi_insights |-> <<>>,
                       content_insights |-> <<>>,
                       key_takeaway |-> "Unable to generate insights due to an error."]

\* the content step raised after the platform and KPI steps had computed insights
C1_Witness ==
    /\ pc = "synth_failed"
    /\ platform_insights # <<>>
    /\ kpi_insights # <<>>
    /\ insights.platform_insights = <<>>

\* _generate_key_takeaway has returned
TakeawayDone == pc \in {"synth_return", "synth_done"}

\* all_insights of the call
AllInsights == platform_insights \o kpi_insights \o content_insights

\* the number of insights that hold, in any case, one of the words
Mentioning(words) ==
    Cardinality({i \in 1..Len(AllInsights) :
                    \E w \in words : Contains(w, Lower(AllInsights[i]))})

PositiveCount == Mentioning({"exceeded", "strong", "significant", "grew", "performed well"})

NegativeCount == Mentioning({"below", "declined", "decreased", "underperformed"})

\* C6: with at least one insight, the key takeaway is the "strong" sentence
\* iff more insights mention a positive word than a negative one, the "below
\* targets" sentence iff more mention a negative word, and the "mixed"
\* sentence iff the two counts are equal, whatever the highlights are.
C6_KeyTakeawayDecision ==
    (TakeawayDone /\ AllInsights # <<>>) =>
        /\ key_takeaway = StrongTakeaway <=> PositiveCount > NegativeCount
        /\ key_takeaway = BelowTakeaway <=> NegativeCount > PositiveCount
        /\ key_takeaway = MixedTakeaway <=> PositiveCount = NegativeCount
        /\ pc = "synth_done" => insights.key_takeaway = key_takeaway
        /\ AllInsights = <<"Linkedin drove 40 clicks to the website.">> =>
               key_takeaway = MixedTakeaway
        /\ AllInsights = <<"Linkedin drove 40 clicks to the website.",
                           "Below KPI for clicks: Target was 50, achieved 40.">> =>
               key_takeaway = BelowTakeaway

\* a tie of non-zero counts, with highlights present
C6_Witness ==
    /\ pc = "synth_done"
    /\ highlights_text # ""
    /\ PositiveCount = NegativeCount /\ PositiveCount > 0
    /\ insights.key_takeaway = MixedTakeaway

\* C7: with no insight in any of the three categories the key takeaway is
\* the "insufficient data" sentence when the highlights are empty and the
\* "account manager's highlights" sentence otherwise; an empty strategy, no
\* metrics and empty highlights give the "insufficient data" sentence.
C7_TakeawayDegeneracy ==
    /\ (TakeawayDone /\ AllInsights = <<>>) =>
           key_takeaway = IF highlights_text = ""
                          THEN "Insufficient data to generate a meaningful takeaway. Ensure all required data is provided for future reports."
                          ELSE "Based on the account manager's highlights, focus on continuing to create content that resonates with the audience and drives engagement."
    /\ (/\ pc = "synth_done"
        /\ strategy_data \in {EmptyDict, Strategy(PyList(<<>>), PyList(<<>>))}
        /\ metrics_data = <<>>
        /\ highlights_text = "") =>
           insights.key_takeaway = InsufficientTakeaway

\* highlights that yield no content insight, and nothing else to report
C7_Witness ==
    /\ pc = "synth_done"
    /\ highlights_text = "Quiet month."
    /\ AllInsights = <<>>
    /\ insights.key_takeaway = HighlightsTakeaway

----------------------------------------------------------------------------
(* Totality and shape of the three contracts *)

\* a sequence of strings
IsStringSeq(s) == DOMAIN s = 1..Len(s) /\ \A i \in 1..Len(s) : s[i] \in STRING

\* a sequence of KPI records
IsKpiSeq(s) ==
    /\ DOMAIN s = 1..Len(s)
    /\ \A i \in 1..Len(s) :
           DOMAIN s[i] = {"name", "value"} /\ s[i].name \in STRING /\ s[i].value \in STRING

\* a mapping from metric names to strings, as the sequence of its items
IsMetricsMapping(m) ==
    /\ DOMAIN m = 1..Len(m)
    /\ \A i \in 1..Len(m) : m[i].name \in STRING /\ m[i].value \in STRING
    /\ \A i, j \in 1..Len(m) : m[i].name = m[j].name => i = j

FixedTakeaways ==
    {StrongTakeaway, BelowTakeaway, MixedTakeaway, HighlightsTakeaway, InsufficientTakeaway,
     ErrorTakeaway}

\* generate_insights is called with a strategy dict of lists and metrics entries that are dicts
WellFormedArguments ==
    /\ IsDict(strategy_data) /\ IsList(KpisOf(strategy_data)) /\ IsList(PillarsOf(strategy_data))
    /\ \A i \in 1..Len(metrics_data) : IsDict(metrics_data[i])

\* C2: on every text, the empty one included, _extract_kpis returns a
\* sequence of name/value records and _extract_content_pillars a sequence of
\* strings, _extract_metrics returns a record with a platform and a metrics
\* mapping, and generate_insights returns a bundle with its four fields, three
\* sequences of strings and one of the fixed takeaway sentences; no statement
\* of any of them raises.
C2_TotalityAndShape ==
    /\ pc \in {"pdf_kpis", "pdf_pillars", "pdf_return", "pdf_done"} =>
           ~(IndexRaises(text, kpi_sections) \/ UnpackRaises(text)
             \/ IndexRaises(text, pillar_sections))
    /\ KpisExtracted => IsKpiSeq(kpis)
    /\ PillarsExtracted => IsStringSeq(content_pillars)
    /\ (image.readable /\ image.ocr_ok) => pc \notin {"img_except", "img_failed"}
    /\ pc \in {"img_return", "img_done"} =>
           /\ {"platform", "metrics"} \subseteq DOMAIN metrics
           /\ metrics.platform \in STRING
           /\ IsMetricsMapping(metrics.metrics)
    /\ pc \in {"synth_done", "synth_failed"} =>
           /\ DOMAIN insights = {"platform_insights", "kpi_insights", "content_insights",
                                 "key_takeaway"}
           /\ IsStringSeq(insights.platform_insights)
           /\ IsStringSeq(insights.kpi_insights)
           /\ IsStringSeq(insights.content_insights)
           /\ insights.key_takeaway \in FixedTakeaways
    /\ WellFormedArguments => pc \notin {"synth_except", "synth_failed"}

\* the empty text: no platform, no metric
C2_Witness ==
    /\ pc = "img_done"
    /\ text = ""
    /\ metrics.platform = "unknown"
    /\ metrics.metrics = <<>>

----------------------------------------------------------------------------
(* Claims about analyze_image, _extract_metrics and _detect_platform *)

\* the keys of a dict modelled as a record
Keys(d) == DOMAIN d \ {"py_type"}

\* C11: analyze_image always returns: after an unreadable image or a failed
\* OCR its result has exactly the keys image_path, image_name and error, and
\* otherwise exactly platform, metrics, image_path and image_name; the error
\* key tells a failure from a success that found nothing.
C11_FailureShape ==
    /\ pc \in {"img_read", "img_ocr", "img_extract", "img_return", "img_except",
               "img_done", "img_failed"}
    /\ pc = "img_failed" =>
           /\ ~(image.readable /\ image.ocr_ok)
           /\ Keys(metrics) = {"image_path", "image_name", "error"}
           /\ metrics.image_path = image.path
    /\ pc = "img_done" =>
           /\ image.readable /\ image.ocr_ok
           /\ Keys(metrics) = {"platform", "metrics", "image_path", "image_name"}
           /\ metrics.image_path = image.path
    /\ pc \in {"img_done", "img_failed"} =>
           ("error" \in Keys(metrics) <=> ~(image.readable /\ image.ocr_ok))

\* the OCR failed on a readable image
C11_Witness ==
    /\ pc = "img_failed"
    /\ image.readable /\ ~image.ocr_ok
    /\ Keys(metrics) = {"image_path", "image_name", "error"}

\* _extract_metrics has returned
MetricsExtracted == pc \in {"img_return", "img_done"}

DeclarationOrder ==
    <<"facebook", "instagram", "twitter", "linkedin", "tiktok", "youtube", "pinterest">>

\* the platforms of the table with a keyword that occurs in the text, in any case
PlatformsHit ==
    {k \in 1..Len(platforms) :
        \E j \in 1..Len(platforms[k].patterns) : Contains(platforms[k].patterns[j], Lower(text))}

\* C12: the platform of the result is the first one, in the order facebook,
\* instagram, twitter, linkedin, tiktok, youtube, pinterest, with a keyword
\* that is a case-insensitive substring of the text, whatever later platforms
\* also match, and "unknown" iff no keyword of any platform occurs.
C12_PlatformDetection ==
    /\ \A k \in 1..Len(platforms) : platforms[k].platform = DeclarationOrder[k]
    /\ MetricsExtracted =>
           /\ metrics.platform = IF PlatformsHit = {} THEN "unknown"
                                 ELSE DeclarationOrder[MinOf(PlatformsHit)]
           /\ metrics.platform = "unknown" <=> PlatformsHit = {}

\* twitter is named before facebook in the text; facebook is detected
C12_Witness ==
    /\ pc = "img_done"
    /\ Contains("twitter", Lower(text)) /\ Contains("facebook", Lower(text))
    /\ Find("twitter", Lower(text)) < Find("facebook", Lower(text))
    /\ metrics.platform = "facebook"

----------------------------------------------------------------------------
(* Claims about _generate_kpi_insights *)

\* the pooled metric names a KPI name matches, in pooled-mapping order
MatchingNames(kpi_name) ==
    SelectSeq(MetricNames(metrics_data), LAMBDA n : KpiMatches(kpi_name, n))

\* the one insight of a KPI, built from the first pooled metric it matches
FirstMatchInsight(kpi) ==
    LET kpi_name == Lower(kpi.name)
    IN  IF MatchingNames(kpi_name) = <<>> THEN <<>>
        ELSE <<KpiSentence(kpi_name, kpi.value, FirstPooled(MatchingNames(kpi_name)[1]))>>

\* C14: each KPI produces at most one KPI insight, built from the first
\* pooled metric, in pooled-mapping order, whose name is a case-insensitive
\* substring of the KPI name or contains it; later pooled metrics that match
\* the same KPI produce no further insight.
C14_FirstMatchWins ==
    KpiDone =>
        kpi_insights = Concat([i \in 1..Len(strategy_data.kpis.items) |->
                                  FirstMatchInsight(strategy_data.kpis.items[i])])

----------------------------------------------------------------------------
(* Claims about the value _extract_metrics stores *)

OcrTextLines == Split(text, NL)

\* the lines of the text that hold a trigger keyword of the k-th metric
TriggerLines(k) ==
    LET lows == Split(Lower(text), NL)
    IN  {n \in 1..Len(lows) :
            \E j \in 1..Len(metric_patterns[k].patterns) :
                Contains(metric_patterns[k].patterns[j], lows[n])}

\* everything after the first colon of the line, trimmed
AfterFirstColon(line) == Strip(SubSeq(line, Find(":", line) + 1, Len(line)))

\* C15: when the one line that holds a trigger of a metric contains ':', the
\* value stored for the metric is everything after the first ':' of the
\* line, trimmed; the line "Reach: 10:30" stores "10:30".
C15_ValueAfterColon ==
    MetricsExtracted =>
        /\ \A k \in 1..Len(metric_patterns) : \A n \in TriggerLines(k) :
               (TriggerLines(k) = {n} /\ Contains(":", OcrTextLines[n])) =>
                   /\ Carries(metrics, metric_patterns[k].name)
                   /\ CarriedValue(metrics, metric_patterns[k].name) =
                          AfterFirstColon(OcrTextLines[n])
        /\ text = "Reach: 10:30" \o NL =>
               metrics.metrics = <<[name |-> "impressions", value |-> "10:30"]>>

\* the value one line yields for one trigger keyword, as a sequence of at most one string
LineValue(line, pattern) ==
    IF ~Contains(pattern, Lower(line)) THEN <<>>
    ELSE IF Len(Split(line, ":")) > 1 THEN <<Strip(Split(line, ":")[2])>>
         ELSE WordLoop(SplitWords(line), pattern, 1, <<>>)

\* the values the k-th metric's keywords yield, keyword by keyword in list
\* order and line by line in text order
QualifyingValues(k) ==
    Concat([j \in 1..Len(metric_patterns[k].patterns) |->
               Concat([n \in 1..Len(OcrTextLines) |->
                          LineValue(OcrTextLines[n], metric_patterns[k].patterns[j])])])

\* C16: for each metric name the stored value is the one of the first
\* trigger keyword, in keyword-list order, and the first line holding it that
\* yield a value; later lines and later keywords of the metric never
\* overwrite it.
C16_FirstLineWins ==
    MetricsExtracted =>
        \A k \in 1..Len(metric_patterns) :
            IF QualifyingValues(k) = <<>>
            THEN ~Carries(metrics, metric_patterns[k].name)
            ELSE /\ Carries(metrics, metric_patterns[k].name)
                 /\ CarriedValue(metrics, metric_patterns[k].name) = QualifyingValues(k)[1]

\* a trigger keyword of the k-th metric occurs in the text, in any case
TriggerInText(k) ==
    \E j \in 1..Len(metric_patterns[k].patterns) :
        Contains(metric_patterns[k].patterns[j], Lower(text))

\* C17: the keys of metrics are among impressions, engagement, clicks,
\* followers and conversion, each at most once, and a key is present only if
\* one of the metric's trigger keywords occurs in the text in any case; a
\* metric without a trigger in the text has no entry at all.
C17_MetricKeys ==
    MetricsExtracted =>
        /\ \A i \in 1..Len(metrics.metrics) :
               metrics.metrics[i].name \in
                   {"impressions", "engagement", "clicks", "followers", "conversion"}
        /\ \A i, j \in 1..Len(metrics.metrics) :
               metrics.metrics[i].name = metrics.metrics[j].name => i = j
        /\ \A k \in 1..Len(metric_patterns) :
               ~TriggerInText(k) => ~Carries(metrics, metric_patterns[k].name)

\* a text with triggers of engagement only: one key, the other four omitted
C17_Witness ==
    /\ pc = "img_done"
    /\ TriggerInText(2)
    /\ \A k \in {1, 3, 4, 5} : ~TriggerInText(k)
    /\ Len(metrics.metrics) = 1
    /\ metrics.metrics[1].name = "engagement"

----------------------------------------------------------------------------
(* Claims about the order and the blocks of _extract_kpis and _extract_content_pillars *)

DocumentLines == Split(text, NL)

\* the lines of the document a KPI entry can come from
KpiLinesOf(kpi) ==
    {n \in 1..Len(DocumentLines) :
        /\ Contains(":", Strip(DocumentLines[n]))
        /\ KpiOfLine(DocumentLines[n]) = kpi}

\* the lines of the document a pillar entry can come from
PillarLinesOf(pillar) ==
    {n \in 1..Len(DocumentLines) : pillar # "" /\ Strip(DocumentLines[n]) = pillar}

\* C18: the KPI sequence and the pillar sequence list their entries in the
\* order of the lines of the document they come from, also when the
\* headings occur in the text in another order than the heading-priority order.
C18_DocumentOrder ==
    /\ KpisExtracted =>
           \A i, j \in 1..Len(kpis) :
               (i < j /\ KpiLinesOf(kpis[i]) # {} /\ KpiLinesOf(kpis[j]) # {}) =>
                   \E a \in KpiLinesOf(kpis[i]), b \in KpiLinesOf(kpis[j]) : a <= b
    /\ PillarsExtracted =>
           \A i, j \in 1..Len(content_pillars) :
               (i < j /\ PillarLinesOf(content_pillars[i]) # {}
                      /\ PillarLinesOf(content_pillars[j]) # {}) =>
                   \E a \in PillarLinesOf(content_pillars[i]),
                      b \in PillarLinesOf(content_pillars[j]) : a <= b

\* the substring right after the first occurrence of the heading, up to the
\* first blank line after it
BlockAfter(txt, section) ==
    LET rest == SubSeq(txt, Find(section, txt) + Len(section), Len(txt))
    IN  IF Contains(NL \o NL, rest) THEN SubSeq(rest, 1, Find(NL \o NL, rest) - 1) ELSE rest

\* C19: for each heading found in the text the block parsed starts right
\* after the first occurrence of the heading and ends at the first blank line
\* after it, also when the heading occurs again before that blank line.
C19_BlockBoundary ==
    /\ KpisExtracted =>
           kpis = Concat([j \in 1..Len(kpi_sections) |->
                             IF Contains(kpi_sections[j], text)
                             THEN KpisOfBlock(BlockAfter(text, kpi_sections[j]))
                             ELSE <<>>])
    /\ PillarsExtracted =>
           content_pillars = Concat([j \in 1..Len(pillar_sections) |->
                                        IF Contains(pillar_sections[j], text)
                                        THEN PillarLines(Split(BlockAfter(text, pillar_sections[j]), NL))
                                        ELSE <<>>])

----------------------------------------------------------------------------
(* Claims about the numeric-parse fallback of _generate_kpi_insights *)

\* the value strings of the model's KPIs and metrics that are no number once
\* stripped to digits and '.': more than one '.', or nothing left
Unparsable == {"1.2.3", "n/a"}

NeutralSentence(kpi_name, kpi_value, metric_value) ==
    "KPI for " \o kpi_name \o ": Target was " \o kpi_value \o ", achieved " \o metric_value \o "."

\* C20: when the KPI value or the matched metric value is no number once
\* stripped to digits and '.', the KPI insight is the neutral sentence
\* "KPI for <name>: Target was <target>, achieved <value>." with no
\* Exceeded/Below verdict, and generate_insights does not return the error bundle.
C20_NumericFallback ==
    /\ KpiDone =>
           /\ \A i \in 1..Len(strategy_data.kpis.items), n \in PooledNames :
                  LET kpi == strategy_data.kpis.items[i]
                      achieved == FirstPooled(n)
                  IN  (/\ KpiMatches(Lower(kpi.name), n)
                       /\ (kpi.value \in Unparsable \/ achieved \in Unparsable)) =>
                          /\ NeutralSentence(Lower(kpi.name), kpi.value, achieved)
                                 \in Range(kpi_insights)
                          /\ VerdictSentence("Exceeded", Lower(kpi.name), kpi.value, achieved)
                                 \notin Range(kpi_insights)
                          /\ VerdictSentence("Below", Lower(kpi.name), kpi.value, achieved)
                                 \notin Range(kpi_insights)
           /\ (/\ strategy_data.kpis.items = <<Kpi("Engagement Rate", "4.5%")>>
               /\ metrics_data = <<InstagramNoValue>>) =>
                  kpi_insights = <<"KPI for engagement rate: Target was 4.5%, achieved n/a.">>
    /\ (IsDict(strategy_data) /\ IsList(KpisOf(strategy_data))) =>
           pc \notin {"synth_except", "synth_failed"}
    /\ pc = "synth_done" =>
           insights.kpi_insights = kpi_insights /\ insights.key_takeaway # ErrorTakeaway

\* an achieved value with nothing left after stripping, in a returned bundle
C20_Witness ==
    /\ pc = "synth_done"
    /\ metrics_data = <<InstagramNoValue>>
    /\ insights.kpi_insights = <<"KPI for engagement rate: Target was 4.5%, achieved n/a.">>
    /\ insights.key_takeaway = StrongTakeaway


----------------------------------------------------------------------------
(* Claims about the lines of a pillar block *)

\* the positions of the lines of a block that are kept as pillars
KeptLines(block) ==
    {n \in 1..Len(Split(block, NL)) :
        LET l == Strip(Split(block, NL)[n])
        IN  l # "" /\ CharAt(l, 1) \notin {"#", "*"}}

\* the i-th smallest member of a set of positions
NthOf(S, i) == CHOOSE n \in S : Cardinality({m \in S : m <= n}) = i

\* the pillars a block stands for: its kept lines, trimmed, in line order
PillarsOfBlock(block) ==
    [i \in 1..Cardinality(KeptLines(block)) |-> Strip(Split(block, NL)[NthOf(KeptLines(block), i)])]

PillarsOfHeading(j) ==
    IF Contains(pillar_sections[j], text)
    THEN PillarsOfBlock(SectionText(text, pillar_sections[j]))
    ELSE <<>>

\* C21: in the block captured after a pillar heading every line that is
\* non-empty after trimming and starts with neither '#' nor '*' is appended,
\* trimmed, as one pillar in line order, and every other line is dropped; so
\* every extracted pillar is non-empty and starts with neither '#' nor '*'.
C21_PillarLineFilter ==
    PillarsExtracted =>
        /\ content_pillars = PillarsOfHeading(1) \o PillarsOfHeading(2) \o PillarsOfHeading(3)
        /\ \A i \in 1..Len(content_pillars) :
               /\ content_pillars[i] # ""
               /\ CharAt(content_pillars[i], 1) \notin {"#", "*"}

\* a block with a bullet line, a '#' line and a padded line between plain ones
C21_Witness ==
    /\ pc = "pdf_done"
    /\ Contains("* bullet", text) /\ Contains("# Heading", text)
    /\ content_pillars = <<"Education", "Community">>


----------------------------------------------------------------------------
(* generate_insights on the content pillars and the highlights *)

\* the pillars strategy_data is drawn from; the empty string is a JSON string too
PillarPool == {"Education", "REELS", "Humor", ""}

HighlightsPool ==
    { "", "Quiet month.",
      "Education posts performed well, stories underperformed. Reels resonated but reach declined.",
      "Intro. The Reels were Popular and successful.  Reels stayed popular" }

InitContent ==
    /\ metrics_data = <<>>
    /\ strategy_data \in {Strategy(PyList(<<>>), PyList(p)) : p \in SeqUpTo(PillarPool, MaxPillars)}
                         \cup {Strategy(PyList(<<>>), NonList)}
    /\ highlights_text \in HighlightsPool
    /\ SynthStart

SpecContent == InitContent /\ [][NextSynth]_vars


----------------------------------------------------------------------------
(* Claims about _generate_content_insights *)

\* _generate_content_insights has returned
ContentDone == pc \in {"synth_takeaway", "synth_return", "synth_done"}

\* the content pillars of strategy_data, when they are a list
GivenPillars == strategy_data.content_pillars.items

\* the positions of the pillars whose lower-cased form occurs in the lower-cased highlights
MentionedPillars ==
    {i \in 1..Len(GivenPillars) : Contains(Lower(GivenPillars[i]), Lower(highlights_text))}

PillarSentence(pillar) ==
    "Content aligned with the '" \o pillar \o "' pillar performed well this month."

\* the '.'-delimited sentences of the highlights, trimmed, with a '.' appended
HighlightSentences == {Strip(s) \o "." : s \in Range(Split(highlights_text, "."))}

\* content_insights starts with one sentence per position of hits, in pillar
\* order, and goes on with sentences of the highlights only
PillarSentencesFirst(hits) ==
    /\ Len(content_insights) >= Cardinality(hits)
    /\ \A i \in 1..Len(content_insights) :
           IF i <= Cardinality(hits)
           THEN content_insights[i] = PillarSentence(GivenPillars[NthOf(hits, i)])
           ELSE content_insights[i] \in HighlightSentences

\* C22 as stated: for each content pillar, in pillar order, the pillar sentence
\* is emitted iff the lower-cased pillar is a substring of the lower-cased
\* highlights, once per occurrence of the pillar in the pillar sequence, and
\* these sentences precede every phrase-derived content insight.
C22_PillarInsights ==
    (ContentDone /\ IsDict(strategy_data) /\ IsList(PillarsOf(strategy_data))) =>
        PillarSentencesFirst(MentionedPillars)

\* C22 amended: the same, for highlights that are not empty; with empty
\* highlights no pillar sentence is emitted, whatever the pillars are.
C22_PillarInsightsOfHighlights ==
    (ContentDone /\ IsDict(strategy_data) /\ IsList(PillarsOf(strategy_data))) =>
        PillarSentencesFirst(IF highlights_text = "" THEN {} ELSE MentionedPillars)

\* a pillar given twice in another case than the highlights use, before two phrase insights
C22_Witness ==
    /\ pc = "synth_done"
    /\ IsList(PillarsOf(strategy_data))
    /\ GivenPillars = <<"REELS", "REELS">>
    /\ insights.content_insights =
           <<PillarSentence("REELS"), PillarSentence("REELS"),
             "The Reels were Popular and successful.", "The Reels were Popular and successful.">>


\* the number of pillar sentences at the head of content_insights
PillarSentenceCount ==
    IF IsList(PillarsOf(strategy_data)) /\ highlights_text # ""
    THEN Cardinality(MentionedPillars)
    ELSE 0

\* the content insights that follow the pillar sentences
PhrasePart == SubSeq(content_insights, PillarSentenceCount + 1, Len(content_insights))

\* the positions of the '.'-delimited sentences whose lower-cased form holds the phrase
SentencesWith(phrase) ==
    {n \in 1..Len(Split(highlights_text, ".")) :
        Contains(phrase, Lower(Split(highlights_text, ".")[n]))}

\* what one phrase contributes: nothing when it does not occur in the
\* lower-cased highlights, else the first sentence holding it
PhraseContribution(phrase) ==
    IF Contains(phrase, Lower(highlights_text))
    THEN <<Strip(Split(highlights_text, ".")[MinOf(SentencesWith(phrase))]) \o ".">>
    ELSE <<>>

\* C23: each phrase of the fixed list that occurs in the lower-cased highlights
\* emits exactly one content insight, the first '.'-delimited sentence whose
\* lower-cased form holds the phrase, trimmed and with a '.' appended; a phrase
\* that does not occur emits nothing; two phrases of one sentence emit it twice.
C23_PhraseInsights ==
    ContentDone =>
        /\ \A i \in 1..Len(phrases) :
               Contains(phrases[i], Lower(highlights_text)) => SentencesWith(phrases[i]) # {}
        /\ PhrasePart = Concat([i \in 1..Len(phrases) |-> PhraseContribution(phrases[i])])

\* "popular" occurs in two sentences and shares the first of them with "successful"
C23_Witness ==
    /\ pc = "synth_done"
    /\ Cardinality(SentencesWith("popular")) = 2
    /\ SentencesWith("successful") = {MinOf(SentencesWith("popular"))}
    /\ strategy_data.content_pillars = PyList(<<"Humor">>)
    /\ insights.content_insights =
           <<"The Reels were Popular and successful.", "The Reels were Popular and successful.">>


----------------------------------------------------------------------------
(* Claims about the word after a trigger keyword *)

\* the words of the line, lower-cased
LowerWords(line) == LowerAll(SplitWords(line))

\* the trigger keywords of the k-th metric that occur inside one of the lower-cased words
WordTriggers(k, lows) ==
    {j \in 1..Len(metric_patterns[k].patterns) :
        \E i \in 1..Len(lows) : Contains(metric_patterns[k].patterns[j], lows[i])}

\* the position of the first of the lower-cased words that holds the keyword
FirstWordWith(lows, pattern) == MinOf({i \in 1..Len(lows) : Contains(pattern, lows[i])})

\* the characters of the word that are digits, '.' or '%'
NumericPart(word) == Filter(word, "0123456789.%")

\* C24: when the one line that holds a trigger of a metric has no ':' and one
\* trigger of the metric occurs in its words, the value stored is the word
\* after the first word holding the trigger, reduced to its digits, '.' and
\* '%' (possibly to the empty string); when that word is the last of the
\* line, nothing is stored for the metric.
C24_WordAfterTrigger ==
    MetricsExtracted =>
        \A k \in 1..Len(metric_patterns) :
            LET trigger_lines == TriggerLines(k)
                line == OcrTextLines[MinOf(trigger_lines)]
                words == SplitWords(line)
                lows == LowerWords(line)
                triggers == WordTriggers(k, lows)
                i == FirstWordWith(lows, metric_patterns[k].patterns[MinOf(triggers)])
            IN  (/\ Cardinality(trigger_lines) = 1
                 /\ ~Contains(":", line)
                 /\ Cardinality(triggers) = 1) =>
                    IF i = Len(words)
                    THEN ~Carries(metrics, metric_patterns[k].name)
                    ELSE /\ Carries(metrics, metric_patterns[k].name)
                         /\ CarriedValue(metrics, metric_patterns[k].name) =
                                NumericPart(words[i + 1])

\* a next word that reduces to nothing, a trigger that ends its line
C24_Witness ==
    /\ pc = "img_done"
    /\ text = "Conversion rate n/a" \o NL \o "Followers" \o NL
    /\ metrics.metrics = <<[name |-> "conversion", value |-> ""]>>


----------------------------------------------------------------------------
(* client_report_automation.py: process_client *)

client_name == "acme"

\* the names os.listdir gives for the screenshots of the month, the first n of them
ShotNames == <<"a.png", "b.JPG", "c.jpeg">>

\* the month directory process_client settles on, when it gets that far
ResolvedMonth(c) ==
    IF c.month_arg # "" THEN c.month_arg
    ELSE IF c.months # <<>> THEN c.months[Len(c.months)] ELSE ""

\* os.path.isdir(monthly_data_dir) for the month directory
MonthDirExists(c, m) == c.monthly_data /\ m \in Range(c.months)

\* the clients: months holds the directories of Monthly_Data as sorted() orders
\* them; the files are those of Strategy_Deck and of the month that is processed
Clients ==
    {c \in [slack_channel : BOOLEAN, client_dir : BOOLEAN, month_arg : {"", "2024-05"},
            monthly_data : BOOLEAN, months : {<<>>, <<"2024-04">>, <<"2024-04", "2024-05">>},
            strategy_decks : {<<>>, <<"deck.pdf">>},
            screenshots : {SubSeq(ShotNames, 1, n) : n \in 0..MaxImages},
            highlights_files : {<<>>, <<"highlights.txt">>},
            highlights_readable : BOOLEAN, report_writable : BOOLEAN] :
        /\ ~c.client_dir => (~c.monthly_data /\ c.strategy_decks = <<>>)
        /\ ~c.monthly_data => c.months = <<>>
        /\ ~MonthDirExists(c, ResolvedMonth(c)) =>
               (c.screenshots = <<>> /\ c.highlights_files = <<>>)
        /\ c.highlights_files = <<>> => ~c.highlights_readable}

\* what extract_data may return for the strategy deck
ClientStrategies ==
    { StrategyDict(<<>>, <<>>),
      StrategyDict(<<Kpi("Engagement Rate", "4.5%")>>, <<"Education">>) }

\* what analyze_image may return for a screenshot
ShotResults(path) ==
    { WithImageMetadata(ExtractMetrics("Instagram Insights\nEngagement: 500\n"), path),
      ErrorEntry(path) }

\* what the highlights file may hold
ClientHighlights == {"", "Education posts performed well."}

\* InsightGenerator.generate_insights as one call
GenerateInsights(sd, md, hl) ==
    IF PlatformRaises(md) \/ KpiRaises(sd, md) \/ ContentRaises(sd, hl)
    THEN [platform_insights |-> <<>>, kpi_insights |-> <<>>,
          content_insights |-> <<>>, key_takeaway |-> ErrorTakeaway]
    ELSE [platform_insights |-> GeneratePlatformInsights(md),
          kpi_insights |-> GenerateKpiInsights(sd, md),
          content_insights |-> GenerateContentInsights(sd, hl),
          key_takeaway |-> GenerateKeyTakeaway(GeneratePlatformInsights(md),
                                               GenerateKpiInsights(sd, md),
                                               GenerateContentInsights(sd, hl), hl)]

\* the variables of the other calls, while process_client runs
ClientOthersIdle ==
    /\ pdf = [openable |-> FALSE, pages |-> <<>>] /\ pages_read = 0 /\ text = ""
    /\ kpis = <<>> /\ content_pillars = <<>>
    /\ image = NoImage /\ metrics = EmptyDict
    /\ platform_insights = <<>> /\ kpi_insights = <<>> /\ content_insights = <<>>
    /\ key_takeaway = ""

InitClient ==
    /\ pc = "client_start"
    /\ client \in Clients
    /\ month = client.month_arg
    /\ missing_items = <<>> /\ report_url = ""
    /\ calls = <<>> /\ snapshots = {} /\ notifications = <<>> /\ result = "none"
    /\ strategy_data = EmptyDict /\ metrics_data = <<>> /\ highlights_text = ""
    /\ insights = NoInsights
    /\ ClientOthersIdle

client_others == <<pdf, pages_read, text, kpis, content_pillars, image, metrics,
                   platform_insights, kpi_insights, content_insights, key_takeaway, client>>

\* if self.slack_channel: self.slack.notify_<kind>(client_name, month, body, channel)
Notify(kind, m, body) ==
    notifications' = IF client.slack_channel
                     THEN Append(notifications, [kind |-> kind, month |-> m, body |-> body])
                     ELSE notifications

\* logger.error(...); notify_error; return False
ReturnError(m, error) ==
    /\ Notify("error", m, error)
    /\ result' = "False"
    /\ pc' = "client_done"

\* the checks of the client directory and the choice of the month
ClientResolveMonth ==
    /\ pc = "client_start"
    /\ IF ~client.client_dir
       THEN ReturnError(IF month # "" THEN month ELSE "Unknown", "Client directory not found")
            /\ UNCHANGED month
       ELSE IF month = "" /\ ~client.monthly_data
       THEN ReturnError("Unknown", "Monthly data directory not found") /\ UNCHANGED month
       ELSE IF month = "" /\ client.months = <<>>
       THEN ReturnError("Unknown", "No monthly data directories found") /\ UNCHANGED month
       ELSE /\ month' = ResolvedMonth(client)
            /\ pc' = "client_month"
            /\ UNCHANGED <<notifications, result>>
    /\ UNCHANGED <<missing_items, report_url, calls, snapshots, strategy_data, metrics_data,
                   highlights_text, insights, client_others>>

\* os.makedirs of Processed_Data and Generated_Reports; the check of the month directory
ClientCheckMonthDir ==
    /\ pc = "client_month"
    /\ IF ~MonthDirExists(client, month)
       THEN ReturnError(month, "Monthly data directory not found")
       ELSE pc' = "client_missing" /\ UNCHANGED <<notifications, result>>
    /\ UNCHANGED <<month, missing_items, report_url, calls, snapshots, strategy_data,
                   metrics_data, highlights_text, insights, client_others>>

\* the three appends to missing_items
MissingItems(c) ==
    (IF c.strategy_decks = <<>> THEN <<"Strategy deck (PDF)">> ELSE <<>>)
    \o (IF c.screenshots = <<>> THEN <<"Performance screenshots (PNG, JPG)">> ELSE <<>>)
    \o (IF c.highlights_files = <<>> THEN <<"Highlights text file (TXT)">> ELSE <<>>)

\* a check for missing files that reports all three items whenever one is missing
ClientCheckMissingAllItems ==
    /\ pc = "client_missing"
    /\ missing_items' = MissingItems(client)
    /\ IF MissingItems(client) # <<>>
       THEN /\ Notify("missing_data", month,
                      <<"Strategy deck (PDF)", "Performance screenshots (PNG, JPG)",
                        "Highlights text file (TXT)">>)
            /\ result' = "False"
            /\ pc' = "client_done"
       ELSE pc' = "client_extract" /\ UNCHANGED <<notifications, result>>
    /\ UNCHANGED <<month, report_url, calls, snapshots, strategy_data, metrics_data,
                   highlights_text, insights, client_others>>

\* the check for missing files; with missing items: notify_missing_data, return False
ClientCheckMissing ==
    /\ pc = "client_missing"
    /\ missing_items' = MissingItems(client)
    /\ IF MissingItems(client) # <<>>
       THEN /\ Notify("missing_data", month, MissingItems(client))
            /\ result' = "False"
            /\ pc' = "client_done"
       ELSE pc' = "client_extract" /\ UNCHANGED <<notifications, result>>
    /\ UNCHANGED <<month, report_url, calls, snapshots, strategy_data, metrics_data,
                   highlights_text, insights, client_others>>

\* strategy_data = pdf_extractor.extract_data(...); json.dump(strategy_data, f)
ClientExtract ==
    /\ pc = "client_extract"
    /\ strategy_data' \in ClientStrategies
    /\ calls' = Append(calls, "extract_data")
    /\ snapshots' = snapshots \cup {month \o "_strategy_data.json"}
    /\ pc' = "client_analyze"
    /\ UNCHANGED <<month, missing_items, report_url, notifications, result, metrics_data,
                   highlights_text, insights, client_others>>

\* one turn of the loop over screenshots: metrics_data[screenshot] = analyze_image(...)
ClientAnalyze ==
    /\ pc = "client_analyze"
    /\ Len(metrics_data) < Len(client.screenshots)
    /\ metrics_data' \in
           {Append(metrics_data, e) :
               e \in ShotResults(client_name \o "/Monthly_Data/" \o month \o "/"
                                 \o client.screenshots[Len(metrics_data) + 1])}
    /\ calls' = Append(calls, "analyze_image")
    /\ UNCHANGED <<pc, month, missing_items, report_url, snapshots, notifications, result,
                   strategy_data, highlights_text, insights, client_others>>

\* after the loop: json.dump(metrics_data, f)
ClientSaveMetrics ==
    /\ pc = "client_analyze"
    /\ Len(metrics_data) = Len(client.screenshots)
    /\ snapshots' = snapshots \cup {month \o "_metrics_data.json"}
    /\ pc' = "client_highlights"
    /\ UNCHANGED <<month, missing_items, report_url, calls, notifications, result,
                   strategy_data, metrics_data, highlights_text, insights, client_others>>

\* with open(highlights_path, "r") as f: highlights_text = f.read()
ClientReadHighlights ==
    /\ pc = "client_highlights"
    /\ IF client.highlights_readable
       THEN highlights_text' \in ClientHighlights /\ pc' = "client_insights"
       ELSE pc' = "client_except" /\ UNCHANGED highlights_text
    /\ UNCHANGED <<month, missing_items, report_url, calls, snapshots, notifications, result,
                   strategy_data, metrics_data, insights, client_others>>

\* insights = insight_generator.generate_insights(...); json.dump(insights, f)
ClientInsights ==
    /\ pc = "client_insights"
    /\ insights' = GenerateInsights(strategy_data, metrics_data, highlights_text)
    /\ calls' = Append(calls, "generate_insights")
    /\ snapshots' = snapshots \cup {month \o "_insights.json"}
    /\ pc' = "client_report"
    /\ UNCHANGED <<month, missing_items, report_url, notifications, result, strategy_data,
                   metrics_data, highlights_text, client_others>>

\* ReportGenerator.generate_report: the URL, or "" when an error was caught
GenerateReport(c, m) ==
    IF c.report_writable THEN "http://localhost/" \o client_name \o "/" \o m ELSE ""

\* report_url = report_generator.generate_report(...)
ClientReport ==
    /\ pc = "client_report"
    /\ report_url' = GenerateReport(client, month)
    /\ calls' = Append(calls, "generate_report")
    /\ pc' = "client_notify"
    /\ UNCHANGED <<month, missing_items, snapshots, notifications, result, strategy_data,
                   metrics_data, highlights_text, insights, client_others>>

\* if self.slack_channel: notify_report_ready(...); return True
ClientNotifyReady ==
    /\ pc = "client_notify"
    /\ Notify("report_ready", month, report_url)
    /\ result' = "True"
    /\ pc' = "client_done"
    /\ UNCHANGED <<month, missing_items, report_url, calls, snapshots, strategy_data,
                   metrics_data, highlights_text, insights, client_others>>

\* except Exception as e: notify_error; return False
ClientExcept ==
    /\ pc = "client_except"
    /\ ReturnError(month, "error while processing")
    /\ UNCHANGED <<month, missing_items, report_url, calls, snapshots, strategy_data,
                   metrics_data, highlights_text, insights, client_others>>

NextClient ==
    \/ ClientResolveMonth
    \/ ClientCheckMonthDir
    \/ ClientCheckMissing
    \/ ClientExtract
    \/ ClientAnalyze
    \/ ClientSaveMetrics
    \/ ClientReadHighlights
    \/ ClientInsights
    \/ ClientReport
    \/ ClientNotifyReady
    \/ ClientExcept

SpecClient == InitClient /\ [][NextClient]_vars


----------------------------------------------------------------------------
(* Claims about process_client *)

\* process_client has returned
ClientReturned == pc = "client_done"

\* the notifications of one kind that were sent
NotificationsOf(kind) == SelectSeq(notifications, LAMBDA n : n.kind = kind)

\* C25: process_client returns True only if processing was successful: when
\* generate_report cannot write the report and yields no URL, process_client
\* returns False and sends no report-ready notification.
C25_ReportFailure ==
    (ClientReturned /\ "generate_report" \in Range(calls) /\ report_url = "") =>
        /\ result = "False"
        /\ NotificationsOf("report_ready") = <<>>


\* the client and month directories exist, so that the files are looked for
DirectoriesFound == client.client_dir /\ MonthDirExists(client, month)

\* the required inputs in the order they are checked, each with its label
RequiredInputs ==
    << [label |-> "Strategy deck (PDF)", files |-> client.strategy_decks],
       [label |-> "Performance screenshots (PNG, JPG)", files |-> client.screenshots],
       [label |-> "Highlights text file (TXT)", files |-> client.highlights_files] >>

\* the labels of the required inputs that have no file
AbsentInputs ==
    LET absent == SelectSeq(RequiredInputs, LAMBDA r : r.files = <<>>)
    IN  [i \in 1..Len(absent) |-> absent[i].label]

----------------------------------------------------------------------------
(* generate_insights on a MetricsCollection that holds error entries *)

\* the entries process_client may store: results of analyze_image, failed or not
ErrorPoolEntries == {ErrorEntry("shots/broken.png"), InstagramEngagement500, UnknownViews}

InitErrorEntry ==
    /\ metrics_data \in SeqUpTo(ErrorPoolEntries, MaxImages)
    /\ strategy_data \in {Strategy(PyList(<<Kpi("Engagement Rate", "4.5%")>>), PyList(<<>>)),
                          Strategy(NonList, PyList(<<>>))}
    /\ highlights_text \in {"", "Quiet month."}
    /\ SynthStart

SpecErrorEntry == InitErrorEntry /\ [][NextSynth]_vars

\* the entry is the one analyze_image returns for a failed screenshot
IsErrorEntry(e) == "error" \in DOMAIN e /\ "platform" \notin DOMAIN e /\ "metrics" \notin DOMAIN e

\* the mapping with its error entries taken out
WithoutErrorEntries(md) == SelectSeq(md, LAMBDA e : ~IsErrorEntry(e))

\* C27: an error-tagged screenshot entry (an error key, no platform or
\* metrics key) in the MetricsCollection does not make generate_insights
\* fail: it counts as platform "unknown" with no metrics, adds nothing to
\* platform_insights or kpi_insights, and the result is the one the call
\* gives without the entry.
C27_ErrorEntryIgnored ==
    /\ (IsList(KpisOf(strategy_data)) /\ \E i \in 1..Len(metrics_data) : IsErrorEntry(metrics_data[i])) =>
           /\ pc \notin {"synth_except", "synth_failed"}
           /\ PlatformDone =>
                  platform_insights = GeneratePlatformInsights(WithoutErrorEntries(metrics_data))
           /\ KpiDone =>
                  kpi_insights = GenerateKpiInsights(strategy_data, WithoutErrorEntries(metrics_data))
    /\ pc \in {"synth_done", "synth_failed"} =>
           insights = GenerateInsights(strategy_data, WithoutErrorEntries(metrics_data),
                                       highlights_text)

\* an error entry ahead of an Instagram screenshot whose engagement meets the KPI
C27_Witness ==
    /\ pc = "synth_done"
    /\ metrics_data = <<ErrorEntry("shots/broken.png"), InstagramEngagement500>>
    /\ insights.platform_insights = <<"Instagram engagement was strong with 500 interactions.">>
    /\ insights.kpi_insights =
           <<"Exceeded KPI for engagement rate: Target was 4.5%, achieved 500.">>


----------------------------------------------------------------------------
(* Claims about the pooled metrics of _generate_kpi_insights *)

\* the sentences a KPI and an achieved value can give
KpiSentencesWith(kpi, achieved) ==
    { VerdictSentence("Exceeded", Lower(kpi.name), kpi.value, achieved),
      VerdictSentence("Below", Lower(kpi.name), kpi.value, achieved),
      NeutralSentence(Lower(kpi.name), kpi.value, achieved) }

\* C28: the pooled mapping of the KPI insights holds the metrics of every
\* screenshot whatever its platform: a screenshot of platform "unknown",
\* left out of platform_insights, still feeds kpi_insights, and the achieved
\* value set against a KPI is the one of the first screenshot in mapping
\* order that has the matched metric, of unknown platform or not.
C28_PooledAcrossPlatforms ==
    KpiDone =>
        LET given == strategy_data.kpis.items
            matched == {pair \in (1..Len(given)) \X PooledNames :
                           KpiMatches(Lower(given[pair[1]].name), pair[2])}
            first == [n \in PooledNames |-> FirstPooled(n)]
            emitted == Range(kpi_insights)
        IN  /\ \A pair \in matched :
                   KpiSentencesWith(given[pair[1]], first[pair[2]]) \cap emitted # {}
            /\ emitted \subseteq
                   UNION {KpiSentencesWith(given[pair[1]], first[pair[2]]) : pair \in matched}

\* the impressions of an unknown-platform screenshot come first and are the achieved value
C28_Witness ==
    /\ pc = "synth_done"
    /\ metrics_data = <<UnknownViews, FacebookImpressionsClicks>>
    /\ PlatformOf(metrics_data[1]) = "unknown"
    /\ strategy_data.kpis.items = <<Kpi("Impressions", "10,000")>>
    /\ insights.kpi_insights = <<"Below KPI for impressions: Target was 10,000, achieved 9000.">>
    /\ insights.platform_insights =
           <<"Facebook content reached a significant audience with 12000 impressions.",
             "Facebook drove 40 clicks to the website.">>


----------------------------------------------------------------------------
(* Claims about clicks and the platform *)

\* a keyword of facebook, instagram or twitter occurs in the text, in any case
EarlierPlatformInText ==
    \E p \in 1..3 : \E j \in 1..Len(platforms[p].patterns) :
        Contains(platforms[p].patterns[j], Lower(text))

\* C29: in every result of _extract_metrics whose metrics hold the key
\* "clicks" the platform is not "unknown": every clicks trigger contains the
\* linkedin keyword "li", so the text matches a platform, and that platform
\* is linkedin when no facebook, instagram or twitter keyword occurs.
C29_ClicksImplyPlatform ==
    /\ \A j \in 1..Len(metric_patterns[3].patterns) : Contains("li", metric_patterns[3].patterns[j])
    /\ (MetricsExtracted /\ Carries(metrics, "clicks")) =>
           /\ metrics.platform # "unknown"
           /\ metrics.platform \in {"facebook", "instagram", "twitter", "linkedin"}
           /\ ~EarlierPlatformInText => metrics.platform = "linkedin"

\* a screenshot text that names no platform and holds a clicks value
C29_Witness ==
    /\ pc = "img_done"
    /\ text = "Clicks: 40" \o NL
    /\ metrics.metrics = <<[name |-> "clicks", value |-> "40"]>>
    /\ metrics.platform = "linkedin"


----------------------------------------------------------------------------
(* extract_data and generate_insights on KPIs with and without a name *)

EmptyNamePool == {Kpi("", ""), Kpi("", "100"), Kpi("Clicks", "50"), Kpi("Impressions", "10,000")}

InitEmptyName ==
    /\ metrics_data \in SeqUpTo({FacebookImpressionsClicks, UnknownViews}, MaxImages)
    /\ strategy_data \in {Strategy(PyList(k), PyList(<<>>)) : k \in SeqUpTo(EmptyNamePool, MaxKpis)}
                         \cup {Strategy(NonList, PyList(<<>>))}
    /\ highlights_text = ""
    /\ SynthStart

\* the extractor on its documents, the generator on KPIs as the extractor gives them
SpecEmptyName == (InitPdf \/ InitEmptyName) /\ [][NextPdf \/ NextSynth]_vars

\* the lines of the block after the j-th KPI heading that have nothing before their first colon
NamelessLines(j) ==
    IF ~Contains(kpi_sections[j], text) THEN {}
    ELSE LET lines == Split(SectionText(text, kpi_sections[j]), NL)
         IN  {n \in 1..Len(lines) :
                 /\ Contains(":", Strip(lines[n]))
                 /\ Strip(SubSeq(Strip(lines[n]), 1, Find(":", Strip(lines[n])) - 1)) = ""}

\* the pairs of a KPI position and a pooled metric name that match
MatchedPairs ==
    {pair \in (1..Len(strategy_data.kpis.items)) \X PooledNames :
        KpiMatches(Lower(strategy_data.kpis.items[pair[1]].name), pair[2])}

\* C30: a KPI with an empty name, which _extract_kpis gives for a line with
\* nothing before its first colon (the ":" left over from a heading written
\* "KPIs:"), matches every pooled metric in _generate_kpi_insights, the empty
\* string being a substring of every metric name, and so yields one KPI
\* insight per pooled metric name.
C30_EmptyKpiName ==
    /\ (KpisExtracted /\ \E j \in 1..Len(kpi_sections) : NamelessLines(j) # {}) =>
           \E i \in 1..Len(kpis) : kpis[i].name = ""
    /\ KpiDone =>
           /\ \A i \in 1..Len(strategy_data.kpis.items) :
                  strategy_data.kpis.items[i].name = "" =>
                      \A n \in PooledNames :
                          /\ <<i, n>> \in MatchedPairs
                          /\ \E s \in KpiSentencesWith(strategy_data.kpis.items[i], FirstPooled(n)) :
                                 s \in Range(kpi_insights)
           /\ Len(kpi_insights) = Cardinality(MatchedPairs)
           /\ (\A i \in 1..Len(strategy_data.kpis.items) : strategy_data.kpis.items[i].name = "") =>
                  Len(kpi_insights) = Len(strategy_data.kpis.items) * Cardinality(PooledNames)

\* the KPI of a heading written "KPIs:" against a screenshot with two metrics
C30_Witness ==
    /\ pc = "synth_done"
    /\ strategy_data.kpis = PyList(<<Kpi("", "")>>)
    /\ metrics_data = <<FacebookImpressionsClicks>>
    /\ insights.kpi_insights = <<"KPI for : Target was , achieved 12000.",
                                 "KPI for : Target was , achieved 40.">>

====
